---- MODULE Spec2Model ----
(***************************************************************************)
(* Model of the PHP extension llm-php-ext (Rust, ext-php-rs + octolib):    *)
(* the value converter (convert.rs, tool_builder.rs), the Message model    *)
(* and MessageCollection (message.rs), the error mapper (error.rs) and the *)
(* three completion modes (llm_class.rs, structured_builder.rs,            *)
(* tool_builder.rs).                                                       *)
(*                                                                         *)
(* The module holds four specifications over one set of variables:         *)
(*   SpecConv     the recursive value converter                            *)
(*   SpecMessage  one Message: constructors, from_array, to_octo           *)
(*   SpecColl     a MessageCollection and the Message handed to it         *)
(*   SpecCall     LLM / StructuredBuilder / ToolBuilder complete()         *)
(* Each specification moves its own variables and leaves the others at     *)
(* their idle value.                                                       *)
(***************************************************************************)
EXTENDS Integers, Sequences, FiniteSets, TLC

(***************************************************************************)
(* TLC keeps the fields of a record in the order in which their names      *)
(* first occur in the module.  The names are listed here once, and every   *)
(* record below lists its fields in this order, so each record is built    *)
(* in its normal form.                                                     *)
(***************************************************************************)
FieldOrder ==
    [ok |-> TRUE, key |-> TRUE, val |-> TRUE, err |-> TRUE, t |-> TRUE,
     v |-> TRUE, n |-> TRUE, x |-> TRUE, class |-> TRUE, text |-> TRUE,
     obj |-> TRUE, long |-> TRUE, i |-> TRUE, s |-> TRUE, a |-> TRUE,
     b |-> TRUE, location |-> TRUE, role |-> TRUE, content |-> TRUE,
     tool_call_id |-> TRUE, id |-> TRUE, tool_calls |-> TRUE,
     name |-> TRUE, arguments |-> TRUE, arguments_json |-> TRUE,
     response_id |-> TRUE, usage |-> TRUE, model |-> TRUE, arg |-> TRUE,
     res |-> TRUE, outcome |-> TRUE, input |-> TRUE, form |-> TRUE,
     mode |-> TRUE, messages |-> TRUE, temperature |-> TRUE,
     max_tokens |-> TRUE, top_p |-> TRUE, top_k |-> TRUE,
     frequency_penalty |-> TRUE, presence_penalty |-> TRUE, schema |-> TRUE,
     format |-> TRUE, tools |-> TRUE, auto_execute |-> TRUE,
     description |-> TRUE, parameters |-> TRUE, cache_control |-> TRUE,
     finish_reason |-> TRUE, structured |-> TRUE, structured_output |-> TRUE,
     prompt_tokens |-> TRUE, output_tokens |-> TRUE, total_tokens |-> TRUE,
     provider |-> TRUE, trace |-> TRUE, resolve |-> TRUE, supports |-> TRUE,
     completion |-> TRUE, outs |-> TRUE, self |-> TRUE, kind |-> TRUE,
     before |-> TRUE, alive |-> TRUE, busy |-> TRUE, runtime |-> TRUE,
     objs |-> TRUE, runtimes |-> TRUE, target |-> TRUE]

VARIABLES
    value,        \* SpecConv: the serde_json::Value being converted
    zval,         \* SpecConv: Option<Zval>, the host value produced from it
    back,         \* SpecConv: Option<Value>, the host value converted back
    zstr,         \* SpecConv: what Zval::string() of the linked ext-php-rs accepts
    op,           \* SpecMessage: the Message operation made, its input and result
    octo,         \* SpecMessage: Option<Result>, to_octo of the Message built
    cur,          \* SpecColl: the Message object the caller holds, and its maker
    messages,     \* SpecColl: Option<MessageCollection.messages>, None before
                  \*           a collection exists
    built,        \* SpecColl: the construction just made (its list, its result)
    hist,         \* SpecColl: for each stored message, what was handed in
    ser,          \* SpecColl: the serialization round trip just made
    call,         \* SpecCall: the last complete() call, its inputs and outcome
    cfg           \* SpecConfig: the handle or builder being configured, and the
                  \*             last operation made on it

vars == <<value, zval, back, zstr, op, octo, cur, messages, built, hist, ser, call, cfg>>

convVars == <<value, zval, back, zstr>>
msgVars  == <<op, octo>>
collVars == <<cur, messages, built, hist, ser>>
callVars == <<call>>
cfgVars  == <<cfg>>

(***************************************************************************)
(* Bounds of the model.                                                    *)
(***************************************************************************)
MaxLen == 2      \* longest JSON array / host list drawn as an input
MaxMsgs == 3     \* most messages a MessageCollection grows to

(***************************************************************************)
(* Option<T> and Result<T, E>.                                             *)
(***************************************************************************)
None == << >>
Some(x) == << x >>
IsSome(o) == o # << >>
Unwrap(o) == o[1]

Ok(x) == [ok |-> TRUE, val |-> x]
Err(e) == [ok |-> FALSE, err |-> e]

Range(s) == {s[i] : i \in DOMAIN s}

SeqsUpTo(S, n) == UNION {[1..k -> S] : k \in 0..n}

(***************************************************************************)
(* serde_json::Value.  A Number is an i64 or an f64; an f64 is written in  *)
(* tenths (15 is 1.5).  An Object is a function from its keys: equality of *)
(* serde_json maps does not depend on the order of the entries.            *)
(***************************************************************************)
JNull == [t |-> "Null", v |-> << >>]
JBool(b) == [t |-> "Bool", v |-> b]
JInt(i) == [t |-> "Number", v |-> [n |-> "i64", x |-> i]]
JFloat(x) == [t |-> "Number", v |-> [n |-> "f64", x |-> x]]

\* The host integer is an i64 and serde_json also holds the positive
\* integers of a u64.  The model keeps the two ranges and the precision of
\* an f64 at a reduced width: IntBits stands for the 64 bits, F64Precision
\* for the 53 bits of the f64 significand, so that the integers above
\* I64Max are F64Spacing apart once read as an f64.
IntBits == 8
I64Max == 2 ^ (IntBits - 1) - 1
U64Max == 2 ^ IntBits - 1
F64Precision == IntBits - 2
F64Spacing == 2 ^ (IntBits - F64Precision)

\* a positive integer above I64Max (serde_json's PosInt)
JUInt(u) == [t |-> "Number", v |-> [n |-> "u64", x |-> u]]

\* the multiple of spacing nearest to u >= 0, ties to the even multiple
RoundHalfEven(u, spacing) ==
    LET q == u \div spacing
        r == u % spacing
    IN  IF 2 * r < spacing THEN q * spacing
        ELSE IF 2 * r > spacing THEN (q + 1) * spacing
        ELSE IF q % 2 = 0 THEN q * spacing
        ELSE (q + 1) * spacing

\* `u as f64`: the nearest f64, ties to the even significand
U64AsF64(u) == RoundHalfEven(u, F64Spacing)

\* Number::as_i64 and Number::as_f64 (an f64 of the model is in tenths)
Number_as_i64(n) == IF n.n = "i64" THEN Some(n.x) ELSE None
Number_as_f64(n) ==
    CASE n.n = "f64" -> Some(n.x)
      [] n.n = "i64" -> Some(10 * n.x)
      [] n.n = "u64" -> Some(10 * U64AsF64(n.x))
JString(s) == [t |-> "String", v |-> s]
JArray(a) == [t |-> "Array", v |-> a]
JObject(f) == [t |-> "Object", v |-> f]

(***************************************************************************)
(* The host value (ext-php-rs Zval).  An array is a ZendHashTable: an      *)
(* ordered list of (key, value) entries, each key an ArrayKey::Long or an  *)
(* ArrayKey::String.                                                       *)
(***************************************************************************)
ZNull == [t |-> "null", v |-> << >>]
ZBool(b) == [t |-> "bool", v |-> b]
ZLong(i) == [t |-> "long", v |-> i]
ZDouble(x) == [t |-> "double", v |-> x]
ZString(s) == [t |-> "string", v |-> s]
ZArray(h) == [t |-> "array", v |-> h]
ZObject(class, o) == [t |-> "object", v |-> [class |-> class, obj |-> o]]

KeyLong(i) == [long |-> TRUE, i |-> i, s |-> ""]
KeyStr(s) == [long |-> FALSE, i |-> 0, s |-> s]
Entry(k, z) == [key |-> k, val |-> z]

\* ZendHashTable::get(&str): the value stored under a string key.
HashGet(h, name) ==
    LET hits == SelectSeq(h, LAMBDA e : e.key = KeyStr(name))
    IN  IF hits = << >> THEN None ELSE Some(hits[1].val)

\* ZendHashTable::push: the next free integer key is the number of entries
\* for a table that was only ever pushed to.
HashPush(h, z) == Append(h, Entry(KeyLong(Len(h)), z))

\* ZendHashTable::insert(&str, v) for a key the table does not hold yet.
HashInsert(h, name, z) == Append(h, Entry(KeyStr(name), z))

(***************************************************************************)
(* Text of numbers.  Rust's Display of an integer, and of an f64 given in  *)
(* tenths (1.5 prints "1.5", 2.0 prints "2").                              *)
(***************************************************************************)
Digits == <<"0", "1", "2", "3", "4", "5", "6", "7", "8", "9">>

RECURSIVE NatToString(_)
NatToString(n) ==
    IF n < 10 THEN Digits[n + 1]
    ELSE NatToString(n \div 10) \o Digits[(n % 10) + 1]

IntToString(i) == IF i < 0 THEN "-" \o NatToString(-i) ELSE NatToString(i)

F64ToString(x) ==
    LET a == IF x < 0 THEN -x ELSE x
        sign == IF x < 0 THEN "-" ELSE ""
    IN  IF a % 10 = 0 THEN sign \o NatToString(a \div 10)
        ELSE sign \o NatToString(a \div 10) \o "." \o Digits[(a % 10) + 1]

(***************************************************************************)
(* Zval accessors of ext-php-rs.  str(), long(), bool() and array() answer *)
(* only for a value of that very type.  string() answers for a string; in  *)
(* the ext-php-rs releases whose string() is documented to "check if it    *)
(* contains a double or a long" it also renders a number as text.  Which   *)
(* release is linked is not fixed by this repository, so the model keeps   *)
(* the three behaviours apart in zstr:                                     *)
(*   "strict"  string() answers for strings only                           *)
(*   "double"  string() also renders a double                              *)
(*   "number"  string() also renders a double and a long                   *)
(* string() renders what double() answers for, so in "number" double()     *)
(* answers for a long as well (`x as f64`).                                *)
(***************************************************************************)
ZStrModes == {"strict", "double", "number"}

Zval_str(z) == IF z.t = "string" THEN Some(z.v) ELSE None
Zval_long(z) == IF z.t = "long" THEN Some(z.v) ELSE None
Zval_double(z, mode) ==
    IF z.t = "double" THEN Some(z.v)
    ELSE IF z.t = "long" /\ mode = "number" THEN Some(10 * z.v)
    ELSE None
Zval_bool(z) == IF z.t = "bool" THEN Some(z.v) ELSE None
Zval_array(z) == IF z.t = "array" THEN Some(z.v) ELSE None

Zval_string(z, mode) ==
    IF z.t = "string" THEN Some(z.v)
    ELSE IF z.t = "double" /\ mode \in {"double", "number"} THEN Some(F64ToString(z.v))
    ELSE IF z.t = "long" /\ mode = "number" THEN Some(IntToString(z.v))
    ELSE None

(***************************************************************************)
(* convert.rs: json_value_to_php.  An Array becomes a table with the keys  *)
(* 0, 1, 2, ...; an Object a table with its string keys, in the order the  *)
(* map iterates (KeyOrder, the keys of the model in sorted order).  No     *)
(* branch of the function fails for the values modelled, so the result is  *)
(* always Ok.                                                              *)
(***************************************************************************)
KeyOrder ==
    <<"0", "1", "5",
      "a", "arguments", "b", "content", "finish_reason", "id", "json", "location",
      "model", "name", "output_tokens", "prompt_tokens", "response_id", "role",
      "structured", "tool_call_id", "tool_calls", "total_tokens", "usage">>

ObjectKeys(f) == SelectSeq(KeyOrder, LAMBDA k : k \in DOMAIN f)

RECURSIVE json_value_to_zval(_)
json_value_to_zval(j) ==
    CASE j.t = "Null" -> ZNull
      [] j.t = "Bool" -> ZBool(j.v)
      [] j.t = "Number" ->
            IF IsSome(Number_as_i64(j.v)) THEN ZLong(Unwrap(Number_as_i64(j.v)))
            ELSE IF IsSome(Number_as_f64(j.v)) THEN ZDouble(Unwrap(Number_as_f64(j.v)))
            ELSE ZNull
      [] j.t = "String" -> ZString(j.v)
      [] j.t = "Array" ->
            ZArray([i \in 1..Len(j.v) |->
                      Entry(KeyLong(i - 1), json_value_to_zval(j.v[i]))])
      [] j.t = "Object" ->
            LET ks == ObjectKeys(j.v)
            IN  ZArray([i \in 1..Len(ks) |->
                          Entry(KeyStr(ks[i]), json_value_to_zval(j.v[ks[i]]))])

json_value_to_php(j) == Ok(json_value_to_zval(j))

(***************************************************************************)
(* tool_builder.rs: zval_to_json_value.  The accessors are tried in the    *)
(* order string, long, double, bool, array; anything else is Null.  A      *)
(* table is an Object as soon as one key is a string key.                  *)
(***************************************************************************)
ArrayKeyText(k) == IF k.long THEN IntToString(k.i) ELSE k.s

\* the value a serde_json map holds under key text kt after the entries of
\* h were inserted in order: a later insert replaces an earlier one.
LastWithKey(h, kt) ==
    LET idx == {i \in DOMAIN h : ArrayKeyText(h[i].key) = kt}
    IN  h[CHOOSE i \in idx : \A j \in idx : j <= i].val

\* a table is an Object as soon as its keys are not 0, 1, 2, ... in order
is_object_non_sequential(h) == \E i \in DOMAIN h : h[i].key # KeyLong(i - 1)

is_object_all_keys(h) == \A i \in DOMAIN h : ~h[i].key.long
is_object(h) == \E i \in DOMAIN h : ~h[i].key.long

RECURSIVE zval_to_json_value(_, _)
zval_to_json_value(z, mode) ==
    IF IsSome(Zval_string(z, mode)) THEN JString(Unwrap(Zval_string(z, mode)))
    ELSE IF IsSome(Zval_long(z)) THEN JInt(Unwrap(Zval_long(z)))
    ELSE IF IsSome(Zval_double(z, mode)) THEN JFloat(Unwrap(Zval_double(z, mode)))
    ELSE IF IsSome(Zval_bool(z)) THEN JBool(Unwrap(Zval_bool(z)))
    ELSE IF IsSome(Zval_array(z)) THEN
        LET h == Unwrap(Zval_array(z))
        IN  IF is_object(h)
            THEN JObject([kt \in {ArrayKeyText(h[i].key) : i \in DOMAIN h} |->
                            zval_to_json_value(LastWithKey(h, kt), mode)])
            ELSE JArray([i \in 1..Len(h) |-> zval_to_json_value(h[i].val, mode)])
    ELSE JNull

(***************************************************************************)
(* SpecConv: a Value is drawn, converted to a host value and back.         *)
(***************************************************************************)
ConvKeys == {"a", "b"}

LeafValues ==
    {JNull, JBool(TRUE), JBool(FALSE), JInt(0), JInt(1), JFloat(15), JString("a")}

SmallValues ==
    LeafValues
    \cup {JArray(a) : a \in SeqsUpTo(LeafValues, 1)}
    \cup {JObject(f) : f \in UNION {[S -> LeafValues] : S \in SUBSET {"a"}}}

Values ==
    LeafValues
    \cup {JArray(a) : a \in SeqsUpTo(SmallValues, MaxLen)}
    \cup {JObject(f) : f \in UNION {[S -> SmallValues] : S \in SUBSET ConvKeys}}

\* integers serde_json holds above the host's integer range, alone and nested
BigValues ==
    LET big == {JUInt(I64Max + 1), JUInt(I64Max + 2), JUInt(U64Max)}
    IN  big \cup {JArray(<<b>>) : b \in big} \cup {JObject([a |-> b]) : b \in big}

IdleConv == value = JNull /\ zval = None /\ back = None /\ zstr = "strict"
IdleMsg  == op = [name |-> "none"] /\ octo = None
IdleColl == cur = None /\ messages = None /\ built = None /\ hist = << >> /\ ser = None
IdleCall == call = [mode |-> "none"]
IdleCfg  == cfg = [name |-> "none"]

InitConv ==
    /\ zstr \in ZStrModes
    /\ value \in Values \cup BigValues
    /\ zval = None
    /\ back = None
    /\ IdleMsg /\ IdleColl /\ IdleCall /\ IdleCfg

\* from_dynamic: the Value is handed to the host.
ToHost ==
    /\ zval = None
    /\ zval' = Some(json_value_to_php(value).val)
    /\ UNCHANGED <<value, back, zstr, msgVars, collVars, callVars, cfgVars>>

\* to_dynamic: the host value comes back (a Tool parameter, for one).
FromHost ==
    /\ IsSome(zval)
    /\ back = None
    /\ back' = Some(zval_to_json_value(Unwrap(zval), zstr))
    /\ UNCHANGED <<value, zval, zstr, msgVars, collVars, callVars, cfgVars>>

NextConv == ToHost \/ FromHost

SpecConv == InitConv /\ [][NextConv]_vars

(***************************************************************************)
(* Claims about the value converter.                                       *)
(***************************************************************************)
RECURSIVE HasEmptyObject(_)
HasEmptyObject(j) ==
    CASE j.t = "Object" ->
            DOMAIN j.v = {} \/ \E k \in DOMAIN j.v : HasEmptyObject(j.v[k])
      [] j.t = "Array" -> \E i \in DOMAIN j.v : HasEmptyObject(j.v[i])
      [] OTHER -> FALSE

RECURSIVE HasNumber(_, _)
HasNumber(j, kind) ==
    CASE j.t = "Number" -> j.v.n = kind
      [] j.t = "Object" -> \E k \in DOMAIN j.v : HasNumber(j.v[k], kind)
      [] j.t = "Array" -> \E i \in DOMAIN j.v : HasNumber(j.v[i], kind)
      [] OTHER -> FALSE

\* every integer of j is in the host's integer range
HostRepresentable(j) == ~HasNumber(j, "u64")

\* the numbers of j pass Zval::string() untouched
NumbersKept(j, mode) ==
    /\ mode \in {"double", "number"} => ~HasNumber(j, "f64")
    /\ mode = "number" => ~HasNumber(j, "i64")

\* C10 as stated: every value (null, bool, int, float, string, arrays and
\* objects, nested, empty containers included) converted to a host value by
\* json_value_to_php and back by zval_to_json_value is the value itself.
\* It is stated for the Zval::string() most favourable to it, the one that
\* answers for strings alone: failing there, it fails for every release.
C10_RoundTripAll ==
    (IsSome(back) /\ zstr = "strict" /\ HostRepresentable(value)) =>
        Unwrap(back) = value

\* C10 as amended: the round trip returns the value exactly when the value
\* holds no empty Object (an empty host table reads back as an Array) and
\* its numbers are not rendered as text by Zval::string(); in particular
\* every value built from null, bool, string, arrays and non-empty objects
\* comes back equal.
C10_RoundTrip ==
    (IsSome(back) /\ HostRepresentable(value)) =>
        ((Unwrap(back) = value) <=> (~HasEmptyObject(value) /\ NumbersKept(value, zstr)))

\* a nested value with an empty Array and a non-empty Object made the trip
C10_Witness ==
    /\ IsSome(back)
    /\ Unwrap(back) = value
    /\ value.t = "Object"
    /\ \E k \in DOMAIN value.v : value.v[k] = JArray(<< >>)
    /\ \E k \in DOMAIN value.v : value.v[k].t = "Object"

\* C11: converting an integer outside the host's integer range to a host
\* value fails with an error; it never becomes a value of another type or
\* another number.
C11_OutOfRangeFails ==
    (IsSome(zval) /\ value.t = "Number" /\ value.v.n = "u64") =>
        /\ ~json_value_to_php(value).ok
        /\ Unwrap(zval).t # "double"

\* what the code does instead: the integer arrives as a double, and as a
\* different number whenever no f64 holds it
C11_BecomesDouble ==
    /\ IsSome(zval)
    /\ value = JUInt(U64Max)
    /\ json_value_to_php(value).ok
    /\ Unwrap(zval) = ZDouble(10 * (U64Max + 1))

(***************************************************************************)
(* SpecContainer: a host table is converted to a Value (zval_to_json_value)*)
(* and the Value is handed back to the host (json_value_to_php), or a      *)
(* container Value has been handed to the host and is read back.  value    *)
(* is Null while the table in zval is the caller's own.                    *)
(***************************************************************************)
HostKeys == {KeyLong(0), KeyLong(1), KeyLong(5), KeyStr("a")}
TableLeaves == {ZLong(1), ZString("x"), ZArray(<< >>)}

\* the tables a caller may hand over: up to MaxLen entries, no key twice
HostTables ==
    {h \in SeqsUpTo({Entry(k, z) : k \in HostKeys, z \in TableLeaves}, MaxLen) :
        \A i, j \in DOMAIN h : i # j => h[i].key # h[j].key}

ContainerValues ==
    {JArray(<< >>), JObject(<< >>), JArray(<<JInt(1)>>), JObject([a |-> JInt(1)]),
     JArray(<<JObject(<< >>)>>), JObject([a |-> JArray(<< >>)])}

InitContainer ==
    /\ zstr \in ZStrModes
    /\ \/ /\ value = JNull
          /\ zval \in {Some(ZArray(h)) : h \in HostTables}
       \/ /\ value \in ContainerValues
          /\ zval = Some(json_value_to_php(value).val)
    /\ back = None
    /\ IdleMsg /\ IdleColl /\ IdleCall /\ IdleCfg

\* to_dynamic of the table the host holds
ToDynamic ==
    /\ back = None
    /\ back' = Some(zval_to_json_value(Unwrap(zval), zstr))
    /\ UNCHANGED <<value, zval, zstr, msgVars, collVars, callVars, cfgVars>>

\* from_dynamic of the Value just made: the host holds the new table
BackToHost ==
    /\ IsSome(back)
    /\ value = JNull
    /\ value' = Unwrap(back)
    /\ zval' = Some(json_value_to_php(Unwrap(back)).val)
    /\ back' = None
    /\ UNCHANGED <<zstr, msgVars, collVars, callVars, cfgVars>>

NextContainer == ToDynamic \/ BackToHost

SpecContainer == InitContainer /\ [][NextContainer]_vars

\* the table that was converted
GivenTable == Unwrap(zval).v

SequentialKeys(h) == \A i \in DOMAIN h : h[i].key = KeyLong(i - 1)

\* C25 as stated: a host container becomes an Object if and only if one of
\* its keys is not a sequential integer (0, 1, 2, ... in order), and an
\* Array otherwise; a container Value handed to the host and read back has
\* its kind again.
C25_BySequentialKeys ==
    IsSome(back) =>
        /\ Unwrap(back).t = "Object" <=> ~SequentialKeys(GivenTable)
        /\ Unwrap(back).t = "Array" <=> SequentialKeys(GivenTable)
        /\ value # JNull => Unwrap(back).t = value.t

\* C25 as amended: a host container becomes an Object if and only if one of
\* its keys is a string key; a table of integer keys alone, sequential or
\* not, becomes the Array of its values in iteration order.  An Array
\* handed to the host reads back as an Array and a non-empty Object as an
\* Object; the empty Object reads back as an Array.
C25_ByStringKey ==
    IsSome(back) =>
        /\ Unwrap(back).t = "Object" <=> \E i \in DOMAIN GivenTable : ~GivenTable[i].key.long
        /\ Unwrap(back).t # "Object" =>
              /\ Unwrap(back).t = "Array"
              /\ Len(Unwrap(back).v) = Len(GivenTable)
              /\ \A i \in DOMAIN GivenTable :
                    Unwrap(back).v[i] = zval_to_json_value(GivenTable[i].val, zstr)
        /\ value # JNull =>
              (Unwrap(back).t = value.t <=> value # JObject(<< >>))

\* the caller's table with the integer keys 5 and 0 became an Array of two
C25_Witness ==
    /\ IsSome(back)
    /\ value = JNull
    /\ Len(GivenTable) = 2
    /\ GivenTable[1].key = KeyLong(5) /\ GivenTable[2].key = KeyLong(0)
    /\ Unwrap(back).t = "Array"
    /\ Len(Unwrap(back).v) = 2

\* the empty Object was handed to the host and read back as an Array
C25_WitnessEmptyObject ==
    /\ IsSome(back)
    /\ value = JObject(<< >>)
    /\ Unwrap(back) = JArray(<< >>)

\* a table with a string key became an Object, was handed back and read again
C25_WitnessObject ==
    /\ IsSome(back)
    /\ value.t = "Object"
    /\ Unwrap(back) = value
    /\ DOMAIN value.v = {"5", "a"}

(***************************************************************************)
(* serde_json::to_string and serde_json::from_str.  to_string writes the   *)
(* compact JSON text (the strings of the model hold no character that      *)
(* needs escaping).  from_str reads back the texts to_string can write of  *)
(* the documents in JsonDocs and rejects every other text of the model.    *)
(***************************************************************************)
RECURSIVE JoinText(_, _)
JoinText(parts, sep) ==
    IF parts = << >> THEN ""
    ELSE IF Len(parts) = 1 THEN parts[1]
    ELSE parts[1] \o sep \o JoinText(Tail(parts), sep)

RECURSIVE serde_json_to_string(_)
serde_json_to_string(j) ==
    CASE j.t = "Null" -> "null"
      [] j.t = "Bool" -> IF j.v THEN "true" ELSE "false"
      [] j.t = "Number" ->
            IF j.v.n = "i64" THEN IntToString(j.v.x)
            ELSE IF j.v.x % 10 = 0 THEN F64ToString(j.v.x) \o ".0"
            ELSE F64ToString(j.v.x)
      [] j.t = "String" -> "\"" \o j.v \o "\""
      [] j.t = "Array" ->
            "[" \o JoinText([i \in 1..Len(j.v) |-> serde_json_to_string(j.v[i])], ",")
                \o "]"
      [] j.t = "Object" ->
            LET ks == ObjectKeys(j.v)
            IN  "{" \o JoinText([i \in 1..Len(ks) |->
                                   "\"" \o ks[i] \o "\":"
                                        \o serde_json_to_string(j.v[ks[i]])], ",")
                \o "}"

(***************************************************************************)
(* tool_builder.rs: ToolCall and ToolResponse, as far as Message needs     *)
(* them.  A ToolCall keeps its arguments as JSON text.                     *)
(***************************************************************************)
ToolCall_new(id, name, arguments) ==
    Ok([id |-> id, name |-> name, arguments_json |-> serde_json_to_string(arguments)])

ToolResponse_has_tool_calls(resp) == resp.tool_calls # << >>

\* the arguments a provider sends with a tool call
CallArguments == {JObject([location |-> JString("Boston")]), JObject(<< >>)}

ProviderCalls ==
    {[id |-> i, name |-> "get_weather", arguments |-> a] :
        i \in {"call_1", "call_2"}, a \in CallArguments}

\* json!({"id": .., "name": .., "arguments": ..}) of Message::from_response
CallDoc(id, name, args) ==
    JObject([id |-> JString(id), name |-> JString(name), arguments |-> args])

JsonDocs ==
    CallArguments
    \cup {JNull, JArray(<< >>)}
    \cup {JArray(a) : a \in SeqsUpTo({CallDoc(c.id, c.name, c.arguments) : c \in ProviderCalls}
                                      \cup {CallDoc(c.id, c.name, JNull) : c \in ProviderCalls},
                                     MaxLen)}

\* each document with the text serde_json writes of it
JsonTexts == {<<serde_json_to_string(j), j>> : j \in JsonDocs}

serde_json_from_str(s) ==
    IF \E p \in JsonTexts : p[1] = s
    THEN Ok((CHOOSE p \in JsonTexts : p[1] = s)[2])
    ELSE Err("expected value")

(***************************************************************************)
(* error.rs: a PhpException is its class and its message; the message is   *)
(* kept as the pieces format! puts together, so that what it names can be  *)
(* read off.                                                               *)
(***************************************************************************)
\* PhpException::from_class::<class>(text)
PhpException(class, text) == [class |-> class, text |-> text]

ValidationError(text) == PhpException("LLMValidationException", text)

Names(e, what) == what \in Range(e.text)

(***************************************************************************)
(* message.rs: Message.                                                    *)
(***************************************************************************)
Message(role, content, tool_call_id, id, tool_calls) ==
    [role |-> role, content |-> content, tool_call_id |-> tool_call_id,
     id |-> id, tool_calls |-> tool_calls]

Message_user(content) == Ok(Message("user", content, None, None, None))
Message_assistant(content) == Ok(Message("assistant", content, None, None, None))
Message_system(content) == Ok(Message("system", content, None, None, None))

Message_tool_drops_id(tool_call_id, result) == Ok(Message("tool", result, None, None, None))
Message_tool(tool_call_id, result) ==
    Ok(Message("tool", result, Some(tool_call_id), None, None))

\* from_response without the has_tool_calls test
Message_from_response_always_array(response) ==
    LET calls == response.tool_calls
        args_value(c) ==
            LET r == serde_json_from_str(c.arguments_json)
            IN  IF r.ok THEN r.val ELSE JNull
        calls_array ==
            [i \in 1..Len(calls) |->
               CallDoc(calls[i].id, calls[i].name, args_value(calls[i]))]
    IN  Ok(Message("assistant", response.content, None, response.response_id,
                   Some(serde_json_to_string(JArray(calls_array)))))

Message_from_response(response) ==
    LET tool_calls_json ==
            IF ToolResponse_has_tool_calls(response)
            THEN LET calls == response.tool_calls
                     args_value(c) ==
                         LET r == serde_json_from_str(c.arguments_json)
                         IN  IF r.ok THEN r.val ELSE JNull
                     calls_array ==
                         [i \in 1..Len(calls) |->
                            CallDoc(calls[i].id, calls[i].name, args_value(calls[i]))]
                 IN  Some(serde_json_to_string(JArray(calls_array)))
            ELSE None
    IN  Ok(Message("assistant", response.content, None, response.response_id,
                   tool_calls_json))

\* data.get(name).and_then(|v| v.str()): a field counts only as a string.
StrField(data, name) ==
    LET v == HashGet(data, name)
    IN  IF IsSome(v) THEN Zval_str(Unwrap(v)) ELSE None

Message_from_array_content_first(data) ==
    IF ~IsSome(StrField(data, "content"))
    THEN Err(ValidationError(<<"Message must have '", "content", "' field">>))
    ELSE IF ~IsSome(StrField(data, "role"))
    THEN Err(ValidationError(<<"Message must have '", "role", "' field">>))
    ELSE Ok(Message(Unwrap(StrField(data, "role")), Unwrap(StrField(data, "content")),
                    StrField(data, "tool_call_id"), StrField(data, "id"),
                    StrField(data, "tool_calls")))

Message_from_array(data) ==
    IF ~IsSome(StrField(data, "role"))
    THEN Err(ValidationError(<<"Message must have '", "role", "' field">>))
    ELSE IF ~IsSome(StrField(data, "content"))
    THEN Err(ValidationError(<<"Message must have '", "content", "' field">>))
    ELSE Ok(Message(Unwrap(StrField(data, "role")), Unwrap(StrField(data, "content")),
                    StrField(data, "tool_call_id"), StrField(data, "id"),
                    StrField(data, "tool_calls")))

OptInsert(h, name, o) == IF IsSome(o) THEN HashInsert(h, name, ZString(Unwrap(o))) ELSE h

Message_to_array(m) ==
    Ok(ZArray(
        OptInsert(
          OptInsert(
            OptInsert(
              HashInsert(HashInsert(<< >>, "role", ZString(m.role)),
                         "content", ZString(m.content)),
              "tool_call_id", m.tool_call_id),
            "id", m.id),
          "tool_calls", m.tool_calls)))

OptJson(o) == IF IsSome(o) THEN JString(Unwrap(o)) ELSE JNull

\* the document json!({..}) that Message::to_json and
\* MessageCollection::to_json hand to serde_json::to_string
MessageDoc(m) ==
    JObject([role |-> JString(m.role), content |-> JString(m.content),
             tool_call_id |-> OptJson(m.tool_call_id), id |-> OptJson(m.id),
             tool_calls |-> OptJson(m.tool_calls)])

(***************************************************************************)
(* Message::to_octo.  octolib's MessageBuilder is outside this repository: *)
(* what build() answers is an input of the conversion ("ok" or "err").     *)
(***************************************************************************)
BuildOutcomes == {"ok", "err"}

OctoMessage(role, content, id, tool_call_id, name, tool_calls) ==
    [role |-> role, content |-> content, tool_call_id |-> tool_call_id, id |-> id,
     tool_calls |-> tool_calls, name |-> name]

MessageBuilder_build(msg, outcome) ==
    IF outcome = "ok" THEN Ok(msg)
    ELSE Err(ValidationError(<<"Failed to build message: ", "builder error">>))

Message_to_octo_no_tool_check(m, outcome) ==
    MessageBuilder_build(
        OctoMessage(m.role, m.content, m.id, m.tool_call_id, None, None), outcome)

Message_to_octo(m, outcome) ==
    CASE m.role = "user" ->
            MessageBuilder_build(OctoMessage("user", m.content, None, None, None, None),
                                 outcome)
      [] m.role = "assistant" ->
            LET built_ == MessageBuilder_build(
                              OctoMessage("assistant", m.content, m.id, None, None, None),
                              outcome)
                parsed == IF IsSome(m.tool_calls)
                          THEN serde_json_from_str(Unwrap(m.tool_calls))
                          ELSE Err("absent")
            IN  IF ~built_.ok THEN built_
                ELSE IF parsed.ok
                THEN Ok([built_.val EXCEPT !.tool_calls = Some(parsed.val)])
                ELSE built_
      [] m.role = "system" ->
            MessageBuilder_build(OctoMessage("system", m.content, None, None, None, None),
                                 outcome)
      [] m.role = "tool" ->
            IF IsSome(m.tool_call_id)
            THEN MessageBuilder_build(
                     OctoMessage("tool", m.content, None, m.tool_call_id, Some(""), None),
                     outcome)
            ELSE Err(ValidationError(<<"Tool message must have tool_call_id">>))
      [] OTHER -> Err(ValidationError(<<"Invalid message role: ", m.role>>))

(***************************************************************************)
(* SpecMessage: the caller builds one Message, by a role constructor, by   *)
(* from_array or by from_response, and converts it with to_octo.           *)
(***************************************************************************)
Contents == {"hi", ""}
ToolCallIds == {"", "call_1"}

\* what a field of a field map may hold: nothing, a value that is no
\* string, or a string
RoleChoices ==
    {None, Some(ZLong(1))}
    \cup {Some(ZString(r)) : r \in {"user", "assistant", "system", "tool", "bogus"}}
ContentChoices == {None, Some(ZNull), Some(ZString("hi"))}
ToolCallIdChoices == {None, Some(ZLong(7)), Some(ZString("")), Some(ZString("call_1"))}
IdChoices == {None, Some(ZBool(TRUE)), Some(ZString("msg_1"))}
ToolCallsChoices ==
    {None, Some(ZArray(<< >>)), Some(ZString("[]")), Some(ZString("not json"))}

OptEntry(name, o) == IF IsSome(o) THEN <<Entry(KeyStr(name), Unwrap(o))>> ELSE << >>

FieldMap(r, c, t, i, tc) ==
    OptEntry("role", r) \o OptEntry("content", c) \o OptEntry("tool_call_id", t)
        \o OptEntry("id", i) \o OptEntry("tool_calls", tc)

FieldMaps ==
    {FieldMap(r, c, t, i, tc) :
        r \in RoleChoices, c \in ContentChoices, t \in ToolCallIdChoices,
        i \in IdChoices, tc \in ToolCallsChoices}

ToolResponses ==
    {[content |-> "calling", tool_calls |-> calls, response_id |-> rid] :
        calls \in SeqsUpTo({ToolCall_new(c.id, c.name, c.arguments).val : c \in ProviderCalls},
                           MaxLen),
        rid \in {None, Some("resp_1")}}

InitMessage ==
    /\ op = [name |-> "none"]
    /\ octo = None
    /\ IdleConv /\ IdleColl /\ IdleCall /\ IdleCfg

Did(name, arg, res) ==
    /\ op' = [name |-> name, arg |-> arg, res |-> res]
    /\ UNCHANGED <<convVars, collVars, callVars, cfgVars>>

User ==
    /\ op.name = "none"
    /\ octo' = None
    /\ \E c \in Contents : Did("user", <<c>>, Message_user(c))

Assistant ==
    /\ op.name = "none"
    /\ octo' = None
    /\ \E c \in Contents : Did("assistant", <<c>>, Message_assistant(c))

System ==
    /\ op.name = "none"
    /\ octo' = None
    /\ \E c \in Contents : Did("system", <<c>>, Message_system(c))

Tool ==
    /\ op.name = "none"
    /\ octo' = None
    /\ \E t \in ToolCallIds, c \in Contents : Did("tool", <<t, c>>, Message_tool(t, c))

FromArray ==
    /\ op.name = "none"
    /\ octo' = None
    /\ \E data \in FieldMaps : Did("from_array", data, Message_from_array(data))

FromResponse ==
    /\ op.name = "none"
    /\ octo' = None
    /\ \E resp \in ToolResponses : Did("from_response", resp, Message_from_response(resp))

ToOcto ==
    /\ op.name # "none"
    /\ op.res.ok
    /\ octo = None
    /\ \E outcome \in BuildOutcomes :
          octo' = Some([res |-> Message_to_octo(op.res.val, outcome), outcome |-> outcome])
    /\ UNCHANGED <<op, convVars, collVars, callVars, cfgVars>>

NextMessage ==
    User \/ Assistant \/ System \/ Tool \/ FromArray \/ FromResponse \/ ToOcto

SpecMessage == InitMessage /\ [][NextMessage]_vars

(***************************************************************************)
(* Claims about one Message.                                               *)
(***************************************************************************)
HasKey(data, name) == IsSome(HashGet(data, name))

\* C4 as stated: from_array succeeds if and only if the field map holds a
\* role entry and a content entry, whatever the entries hold.
C4_FromArrayByPresence ==
    op.name = "from_array" =>
        (op.res.ok <=> (HasKey(op.arg, "role") /\ HasKey(op.arg, "content")))

\* C4 as amended: from_array succeeds if and only if the field map holds a
\* role entry and a content entry that are both strings; otherwise it fails
\* with a ValidationError that names role when role is missing or no string,
\* and content when only content is; tool_call_id, id and tool_calls never
\* affect success, and on success the Message carries the two strings.
C4_FromArray ==
    op.name = "from_array" =>
        LET role == StrField(op.arg, "role")
            content == StrField(op.arg, "content")
        IN  /\ op.res.ok <=> (IsSome(role) /\ IsSome(content))
            /\ op.res.ok =>
                  /\ op.res.val.role = Unwrap(role)
                  /\ op.res.val.content = Unwrap(content)
            /\ ~IsSome(role) =>
                  /\ ~op.res.ok
                  /\ op.res.err.class = "LLMValidationException"
                  /\ Names(op.res.err, "role") /\ ~Names(op.res.err, "content")
            /\ (IsSome(role) /\ ~IsSome(content)) =>
                  /\ ~op.res.ok
                  /\ op.res.err.class = "LLMValidationException"
                  /\ Names(op.res.err, "content") /\ ~Names(op.res.err, "role")

\* from_array has refused a map that lacks both fields, and named role
C4_Witness ==
    /\ op.name = "from_array"
    /\ ~HasKey(op.arg, "role") /\ ~HasKey(op.arg, "content")
    /\ HasKey(op.arg, "tool_call_id")
    /\ ~op.res.ok
    /\ Names(op.res.err, "role")

C21_WitnessNone ==
    /\ op.name = "from_response"
    /\ op.arg.tool_calls = << >>
    /\ op.res.ok
    /\ op.res.val.tool_calls = None

\* the Message that was converted, and the canonical message made of it
Converting == IsSome(octo) /\ Unwrap(octo).res.ok

\* C26: in the canonical form of an assistant Message that has a tool_calls
\* field, the field is parsed and the parsed value is the canonical
\* message's tool_calls; a present field is never dropped without an
\* error; the canonical message of another role carries no tool_calls.
C26_ToolCallsAttached ==
    Converting =>
        LET m == op.res.val
            o == Unwrap(octo).res.val
        IN  /\ (m.role = "assistant" /\ IsSome(m.tool_calls)) =>
                  /\ serde_json_from_str(Unwrap(m.tool_calls)).ok
                  /\ o.tool_calls = Some(serde_json_from_str(Unwrap(m.tool_calls)).val)
            /\ m.role # "assistant" => o.tool_calls = None

\* what holds: a tool_calls text that is JSON is attached as parsed, an
\* assistant Message without the field and a Message of another role get
\* no tool_calls
C26_ParsedAttached ==
    Converting =>
        LET m == op.res.val
            o == Unwrap(octo).res.val
        IN  /\ (m.role = "assistant" /\ IsSome(m.tool_calls)
                  /\ serde_json_from_str(Unwrap(m.tool_calls)).ok) =>
                  o.tool_calls = Some(serde_json_from_str(Unwrap(m.tool_calls)).val)
            /\ (m.role = "assistant" /\ ~IsSome(m.tool_calls)) => o.tool_calls = None
            /\ m.role # "assistant" => o.tool_calls = None

\* an assistant Message whose tool_calls is no JSON was converted without
\* an error and without its tool_calls
C26_DroppedSilently ==
    /\ Converting
    /\ op.res.val.role = "assistant"
    /\ op.res.val.tool_calls = Some("not json")
    /\ Unwrap(octo).res.val.tool_calls = None

\* the tool calls of a folded ToolResponse were attached as parsed
C26_WitnessAttached ==
    /\ Converting
    /\ op.name = "from_response"
    /\ Len(op.arg.tool_calls) = 2
    /\ IsSome(Unwrap(octo).res.val.tool_calls)
    /\ Unwrap(Unwrap(octo).res.val.tool_calls).t = "Array"

(***************************************************************************)
(* message.rs: MessageCollection.                                          *)
(***************************************************************************)
\* a host list: the table with the keys 0, 1, 2, ...
PhpList(items) == [k \in 1..Len(items) |-> Entry(KeyLong(k - 1), items[k])]

RECURSIVE construct_skipping_invalid(_, _)
construct_skipping_invalid(arr, msgs) ==
    IF arr = << >> THEN Ok(msgs)
    ELSE LET item == Head(arr).val
         IN  IF IsSome(Zval_array(item)) /\ Message_from_array(Unwrap(Zval_array(item))).ok
             THEN construct_skipping_invalid(
                      Tail(arr),
                      Append(msgs, Message_from_array(Unwrap(Zval_array(item))).val))
             ELSE construct_skipping_invalid(Tail(arr), msgs)

\* for (_, val) in arr.iter() { if let Some(msg_arr) = val.array() { .. } }
RECURSIVE construct_loop(_, _)
construct_loop(arr, msgs) ==
    IF arr = << >> THEN Ok(msgs)
    ELSE LET item == Head(arr).val
         IN  IF IsSome(Zval_array(item))
             THEN LET msg == Message_from_array(Unwrap(Zval_array(item)))
                  IN  IF ~msg.ok THEN msg
                      ELSE construct_loop(Tail(arr), Append(msgs, msg.val))
             ELSE construct_loop(Tail(arr), msgs)

\* MessageCollection::__construct(messages: Option<&mut PhpArray>)
MessageCollection_construct(list) ==
    IF IsSome(list) THEN construct_loop(Unwrap(list), << >>) ELSE Ok(<< >>)

MessageCollection_from_array(arr) == MessageCollection_construct(Some(arr))

MessageCollection_add(msgs, message) == Append(msgs, message)

PushIfOk(msgs, made) == IF made.ok THEN Append(msgs, made.val) ELSE msgs

MessageCollection_add_user_in_front(msgs, content) == <<Message_user(content).val>> \o msgs
MessageCollection_add_user(msgs, content) == PushIfOk(msgs, Message_user(content))
MessageCollection_add_assistant(msgs, content) == PushIfOk(msgs, Message_assistant(content))
MessageCollection_add_system(msgs, content) == PushIfOk(msgs, Message_system(content))
MessageCollection_add_tool_result(msgs, tool_call_id, result) ==
    PushIfOk(msgs, Message_tool(tool_call_id, result))

\* to_array pushes each Message as a Message object
MessageCollection_to_array(msgs) ==
    Ok(ZArray(PhpList([k \in 1..Len(msgs) |-> ZObject("Message", msgs[k])])))

\* to_json, as the document it hands to serde_json::to_string
MessageCollection_to_json(msgs) == Ok(JArray([k \in 1..Len(msgs) |-> MessageDoc(msgs[k])]))

\* the host reading the JSON text of a document back into arrays
\* (json_decode($json, true)): null, strings and numbers as such, a list as
\* a list, an object as a table with string keys
RECURSIVE php_json_decode(_)
php_json_decode(j) ==
    CASE j.t = "Array" -> ZArray(PhpList([k \in 1..Len(j.v) |-> php_json_decode(j.v[k])]))
      [] j.t = "Object" ->
            LET ks == ObjectKeys(j.v)
            IN  ZArray([k \in 1..Len(ks) |->
                          Entry(KeyStr(ks[k]), php_json_decode(j.v[ks[k]]))])
      [] OTHER -> json_value_to_zval(j)

(***************************************************************************)
(* SpecColl: the caller makes Messages, builds one MessageCollection from  *)
(* a list, adds to it and serializes it.                                   *)
(***************************************************************************)
UserMap == FieldMap(Some(ZString("user")), Some(ZString("hi")), None, None, None)
ToolMapNoId == FieldMap(Some(ZString("tool")), Some(ZString("hi")), None, None, None)
NoRoleMap == FieldMap(None, Some(ZString("hi")), None, None, None)
NoContentMap == FieldMap(Some(ZString("user")), None, Some(ZString("call_1")), None, None)
NumericRoleMap == FieldMap(Some(ZLong(1)), None, None, None, None)

FullMap ==
    FieldMap(Some(ZString("assistant")), Some(ZString("")), Some(ZString("call_1")),
             Some(ZString("msg_1")), Some(ZString("[]")))

ListMaps == {UserMap, ToolMapNoId, FullMap, NoRoleMap, NoContentMap, NumericRoleMap}

\* an entry of a list handed to the constructor: a field map, a string, or
\* a Message object
ListEntries ==
    {ZArray(m) : m \in ListMaps}
    \cup {ZString("hi"), ZObject("Message", Message_user("hi").val)}

HeldResponse ==
    [content |-> "calling",
     tool_calls |-> <<ToolCall_new("call_1", "get_weather", JObject(<< >>)).val>>,
     response_id |-> Some("resp_1")]

Held(made, maker) == [val |-> made.val, name |-> maker]

InitColl ==
    /\ cur = None
    /\ messages = None
    /\ built = None
    /\ hist = << >>
    /\ ser = None
    /\ IdleConv /\ IdleMsg /\ IdleCall /\ IdleCfg

\* a construction that threw ends the caller's script
Thrown == IsSome(built) /\ ~Unwrap(built).res.ok

Hold(made, maker) ==
    /\ ~Thrown
    /\ cur' = Some(Held(made, maker))
    /\ UNCHANGED <<messages, built, hist, ser, convVars, msgVars, callVars, cfgVars>>

\* let m = Message::user("hi") and the like, in the caller's code
MadeUser == Message_user("hi")
MadeAssistant == Message_assistant("hi")
MadeSystem == Message_system("hi")
MadeTool == Message_tool("call_1", "hi")
MadeFromResponse == Message_from_response(HeldResponse)

HoldUser ==
    /\ MadeUser.ok
    /\ Hold(MadeUser, "user")

HoldAssistant ==
    /\ MadeAssistant.ok
    /\ Hold(MadeAssistant, "assistant")

HoldSystem ==
    /\ MadeSystem.ok
    /\ Hold(MadeSystem, "system")

HoldTool ==
    /\ MadeTool.ok
    /\ Hold(MadeTool, "tool")

HoldFromArray ==
    \E m \in ListMaps :
        /\ Message_from_array(m).ok
        /\ Hold(Message_from_array(m), "from_array")

HoldFromResponse ==
    /\ MadeFromResponse.ok
    /\ Hold(MadeFromResponse, "from_response")

\* new MessageCollection(list) / MessageCollection::from_array(list)
Construct ==
    /\ messages = None
    /\ built = None
    /\ \E list \in {None} \cup {Some(PhpList(items)) : items \in SeqsUpTo(ListEntries, MaxLen)} :
          LET res == MessageCollection_construct(list)
              maps == IF IsSome(list)
                      THEN SelectSeq(Unwrap(list),
                                     LAMBDA e : /\ IsSome(Zval_array(e.val))
                                                /\ Message_from_array(e.val.v).ok)
                      ELSE << >>
          IN  /\ built' = Some([arg |-> list, res |-> res])
              /\ messages' = IF res.ok THEN Some(res.val) ELSE None
              /\ hist' = IF res.ok
                         THEN [k \in 1..Len(maps) |->
                                 Held(Message_from_array(maps[k].val.v), "from_array")]
                         ELSE << >>
    /\ ser' = None
    /\ UNCHANGED <<cur, convVars, msgVars, callVars, cfgVars>>

Added(msgs, handed) ==
    /\ messages' = Some(msgs)
    /\ hist' = Append(hist, handed)
    /\ built' = None
    /\ ser' = None
    /\ UNCHANGED <<cur, convVars, msgVars, callVars, cfgVars>>

CanAdd == IsSome(messages) /\ Len(Unwrap(messages)) < MaxMsgs

Add ==
    /\ CanAdd
    /\ IsSome(cur)
    /\ Added(MessageCollection_add(Unwrap(messages), Unwrap(cur).val), Unwrap(cur))

AddUser ==
    /\ CanAdd
    /\ \E c \in {"hi"} :
          Added(MessageCollection_add_user(Unwrap(messages), c),
                [val |-> Message("user", c, None, None, None), name |-> "user"])

AddAssistant ==
    /\ CanAdd
    /\ \E c \in {"hi"} :
          Added(MessageCollection_add_assistant(Unwrap(messages), c),
                [val |-> Message("assistant", c, None, None, None), name |-> "assistant"])

AddSystem ==
    /\ CanAdd
    /\ \E c \in {"hi"} :
          Added(MessageCollection_add_system(Unwrap(messages), c),
                [val |-> Message("system", c, None, None, None), name |-> "system"])

AddToolResult ==
    /\ CanAdd
    /\ \E id \in ToolCallIds, c \in {"hi"} :
          Added(MessageCollection_add_tool_result(Unwrap(messages), id, c),
                [val |-> Message("tool", c, Some(id), None, None), name |-> "tool"])

\* to_array of the collection just built, handed back to
\* MessageCollection::from_array
RoundTripArray ==
    /\ IsSome(messages)
    /\ IsSome(built)
    /\ ser' = Some([res |-> MessageCollection_from_array(
                               MessageCollection_to_array(Unwrap(messages)).val.v),
                    form |-> "array"])
    /\ UNCHANGED <<cur, messages, built, hist, convVars, msgVars, callVars, cfgVars>>

\* to_json of the collection just built, decoded by the host, handed back to
\* MessageCollection::from_array
RoundTripJson ==
    /\ IsSome(messages)
    /\ IsSome(built)
    /\ ser' = Some([res |-> MessageCollection_from_array(
                               php_json_decode(
                                   MessageCollection_to_json(Unwrap(messages)).val).v),
                    form |-> "json"])
    /\ UNCHANGED <<cur, messages, built, hist, convVars, msgVars, callVars, cfgVars>>

NextColl ==
    \/ HoldUser \/ HoldAssistant \/ HoldSystem \/ HoldTool
    \/ HoldFromArray \/ HoldFromResponse
    \/ Construct
    \/ Add \/ AddUser \/ AddAssistant \/ AddSystem \/ AddToolResult
    \/ RoundTripArray \/ RoundTripJson

SpecColl == InitColl /\ [][NextColl]_vars

(***************************************************************************)
(* Claims about Messages and a MessageCollection.                          *)
(***************************************************************************)
ToolHasId(m) == m.role = "tool" => IsSome(m.tool_call_id)

Stored == IF IsSome(messages) THEN Unwrap(messages) ELSE << >>

\* C6 as stated: every Message, standalone or stored, whichever constructor
\* made it, has a tool_call_id when its role is tool.
C6_EveryMessage ==
    /\ IsSome(cur) => ToolHasId(Unwrap(cur).val)
    /\ \A k \in 1..Len(Stored) : ToolHasId(Stored[k])

\* C6 as amended: every Message made by user, assistant, system, tool or
\* from_response, standalone or stored in a collection, has a tool_call_id
\* when its role is tool; from_array does not check it, and to_octo refuses
\* a tool Message without tool_call_id, so that every Message whose to_octo
\* succeeds has a tool_call_id when its role is tool.
C6_ToolHasId ==
    LET Kept(m, maker) ==
            /\ maker # "from_array" => ToolHasId(m)
            /\ \A outcome \in BuildOutcomes :
                  IF ToolHasId(m)
                  THEN m.role = "tool" =>
                          (Message_to_octo(m, outcome).ok <=> outcome = "ok")
                  ELSE /\ ~Message_to_octo(m, outcome).ok
                       /\ Message_to_octo(m, outcome).err.class = "LLMValidationException"
    IN  /\ IsSome(cur) => Kept(Unwrap(cur).val, Unwrap(cur).name)
        /\ Len(hist) = Len(Stored)
        /\ \A k \in 1..Len(Stored) : Kept(Stored[k], hist[k].name)

\* a collection stores a tool Message made by Message::tool, with its id,
\* next to one made by from_array from a map without tool_call_id
C6_Witness ==
    /\ \E k \in 1..Len(Stored) :
          /\ hist[k].name = "tool"
          /\ Stored[k].role = "tool"
          /\ IsSome(Stored[k].tool_call_id)
    /\ \E k \in 1..Len(Stored) :
          /\ hist[k].name = "from_array"
          /\ ~ToolHasId(Stored[k])
    /\ IsSome(cur) /\ Unwrap(cur).name = "from_response"
    /\ ToolHasId(Unwrap(cur).val)

IsMap(e) == IsSome(Zval_array(e.val))

InvalidAt(list) ==
    {k \in 1..Len(list) : IsMap(list[k]) /\ ~Message_from_array(list[k].val.v).ok}

Lowest(S) == CHOOSE k \in S : \A other \in S : k <= other

FailedField(data) == IF ~IsSome(StrField(data, "role")) THEN "role" ELSE "content"

NamesNumber(e) == \E n \in 0..(MaxLen + 1) : Names(e, IntToString(n))

\* what the claim is about: a construction from a list with an invalid entry
FailedBuild == IsSome(built) /\ IsSome(Unwrap(built).arg)
               /\ InvalidAt(Unwrap(Unwrap(built).arg)) # {}

\* C7 as stated: construction from a list with an invalid entry fails at the
\* lowest invalid entry, with an error that reports that entry's index and
\* the field that failed, and produces no collection.
C7_ReportsIndexAndField ==
    FailedBuild =>
        LET list == Unwrap(Unwrap(built).arg)
            res == Unwrap(built).res
            k == Lowest(InvalidAt(list))
        IN  /\ ~res.ok
            /\ messages = None
            /\ Names(res.err, FailedField(list[k].val.v))
            /\ Names(res.err, IntToString(list[k].key.i))

\* C7 as amended: construction from a list with an invalid field map fails
\* with the ValidationError that Message.from_array gives for the lowest
\* invalid entry, which names the field that failed and no index, and
\* produces no collection; without an invalid field map it succeeds and
\* stores the field maps' Messages in list order.
C7_FirstInvalidAborts ==
    /\ FailedBuild =>
          LET list == Unwrap(Unwrap(built).arg)
              res == Unwrap(built).res
              k == Lowest(InvalidAt(list))
          IN  /\ ~res.ok
              /\ messages = None
              /\ res.err = Message_from_array(list[k].val.v).err
              /\ res.err.class = "LLMValidationException"
              /\ Names(res.err, FailedField(list[k].val.v))
              /\ ~NamesNumber(res.err)
    /\ (IsSome(built) /\ ~FailedBuild) =>
          LET list == IF IsSome(Unwrap(built).arg) THEN Unwrap(Unwrap(built).arg) ELSE << >>
              maps == SelectSeq(list, IsMap)
              res == Unwrap(built).res
          IN  /\ res.ok
              /\ messages = Some(res.val)
              /\ res.val = [k \in 1..Len(maps) |-> Message_from_array(maps[k].val.v).val]

\* a list of a valid map followed by an invalid one was refused
C7_Witness ==
    /\ FailedBuild
    /\ Lowest(InvalidAt(Unwrap(Unwrap(built).arg))) = 2
    /\ IsMap(Unwrap(Unwrap(built).arg)[1])
    /\ ~Unwrap(built).res.ok
    /\ messages = None

\* C8: after any sequence of add, add_user, add_assistant, add_system and
\* add_tool_result calls the stored messages are the initial messages
\* followed by the added ones in call order, and each such call adds one
\* message at the end and leaves the messages before it as they were.
C8_AppendsInOrder ==
    /\ [](Stored = [k \in 1..Len(hist) |-> hist[k].val])
    /\ [][(IsSome(messages) /\ messages' # messages) =>
             /\ IsSome(messages')
             /\ Len(Unwrap(messages')) = Len(Unwrap(messages)) + 1
             /\ SubSeq(Unwrap(messages'), 1, Len(Unwrap(messages))) = Unwrap(messages)]_vars

\* a collection built from one field map, then extended by add_assistant and
\* add_tool_result (or add of such Messages), holds the three in that order
C8_Witness ==
    /\ Len(Stored) = 3
    /\ hist[1].name = "from_array"
    /\ hist[2].name = "assistant" /\ Stored[2].role = "assistant"
    /\ hist[3].name = "tool" /\ Stored[3].role = "tool"

\* the collection is as built from a list of field maps
BuiltFromMaps ==
    /\ IsSome(messages) /\ IsSome(built) /\ IsSome(Unwrap(built).arg)
    /\ \A k \in 1..Len(Unwrap(Unwrap(built).arg)) : IsMap(Unwrap(Unwrap(built).arg)[k])

\* C9: a collection built from field maps, serialized by to_array, or by
\* to_json and decoded, and parsed again by from_array, gives an equal
\* collection.
C9_RoundTrip ==
    (IsSome(ser) /\ BuiltFromMaps) =>
        /\ Unwrap(ser).res.ok
        /\ Unwrap(ser).res.val = Stored

(***************************************************************************)
(* error.rs: the failures octolib hands back, and into_php_exception.  A   *)
(* failure is its variant and the texts the variant carries.               *)
(***************************************************************************)
Failure(variant, texts) == [t |-> variant, v |-> texts]

\* An anyhow::Error that is none of octolib's three error types is either
\* one message ("anyhow") or a message put around a cause with context()
\* ("anyhow_context": the message, then the cause).  to_string() writes the
\* outermost message only; {:?} writes the message and the chain of causes.
anyhow_to_string(e) == IF e.t = "anyhow_context" THEN <<e.v[1]>> ELSE e.v

DebugText(e) ==
    IF e.t = "anyhow_context"
    THEN <<e.v[1], "\n\nCaused by:\n    ", e.v[2]>>
    ELSE e.v

\* lib.rs: the exception classes get_module registers with the host
RegisteredClasses ==
    {"LLMException", "LLMValidationException", "LLMStructuredOutputException"}

\* ModelNotSupported classified as the network failures are
into_php_exception_as_connection(e) ==
    CASE e.t = "NetworkError" -> PhpException("LLMConnectionException", e.v)
      [] e.t = "ApiError" ->
            PhpException("LLMConnectionException",
                         <<"API Error [", e.v[1], "] (", e.v[2], "): ", e.v[3]>>)
      [] e.t = "ModelNotSupported" ->
            PhpException("LLMConnectionException",
                         <<"Model '", e.v[1], "' not supported by provider '", e.v[2], "'">>)
      [] e.t = "TimeoutError" ->
            PhpException("LLMConnectionException",
                         <<"Request timeout for provider: ", e.v[1]>>)
      [] e.t = "ProviderError" ->
            PhpException("LLMException", <<"Provider error: ">> \o e.v)
      [] e.t = "StructuredOutputError" ->
            PhpException("LLMStructuredOutputException",
                         <<"Structured output error: ">> \o e.v)
      [] e.t = "ToolCallError" ->
            PhpException("LLMToolCallException", <<"Tool call error: ">> \o e.v)
      [] OTHER -> PhpException("LLMException", anyhow_to_string(e))

\* into_php_exception of an anyhow::Error: the downcasts to ProviderError
\* (with its match), StructuredOutputError and ToolCallError, then the
\* fallback
into_php_exception(e) ==
    CASE e.t = "NetworkError" -> PhpException("LLMConnectionException", e.v)
      [] e.t = "ApiError" ->
            PhpException("LLMConnectionException",
                         <<"API Error [", e.v[1], "] (", e.v[2], "): ", e.v[3]>>)
      [] e.t = "ModelNotSupported" ->
            PhpException("LLMValidationException",
                         <<"Model '", e.v[1], "' not supported by provider '", e.v[2], "'">>)
      [] e.t = "TimeoutError" ->
            PhpException("LLMConnectionException",
                         <<"Request timeout for provider: ", e.v[1]>>)
      [] e.t = "ProviderError" ->
            PhpException("LLMException", <<"Provider error: ">> \o e.v)
      [] e.t = "StructuredOutputError" ->
            PhpException("LLMStructuredOutputException",
                         <<"Structured output error: ">> \o e.v)
      [] e.t = "ToolCallError" ->
            PhpException("LLMToolCallException", <<"Tool call error: ">> \o e.v)
      [] OTHER -> PhpException("LLMException", anyhow_to_string(e))

(***************************************************************************)
(* message.rs, convert.rs: the messages of a call in octolib's form.  The  *)
(* k-th entry of outs is what MessageBuilder::build answers for the k-th   *)
(* message; it answers "ok" beyond the end of outs.                        *)
(***************************************************************************)
OutcomeAt(outs, k) == IF k <= Len(outs) THEN outs[k] ELSE "ok"

\* to_octo going on after a failure and reporting the last one
RECURSIVE to_octo_from_last_error(_, _, _, _)
to_octo_from_last_error(msgs, k, outs, done) ==
    IF k > Len(msgs) THEN Ok(done)
    ELSE LET r == Message_to_octo(msgs[k], OutcomeAt(outs, k))
             rest == to_octo_from_last_error(msgs, k + 1, outs,
                                             IF r.ok THEN Append(done, r.val) ELSE done)
         IN  IF r.ok \/ ~rest.ok THEN rest ELSE r

\* self.messages.iter().map(|m| m.to_octo()).collect()
RECURSIVE to_octo_from(_, _, _, _)
to_octo_from(msgs, k, outs, done) ==
    IF k > Len(msgs) THEN Ok(done)
    ELSE LET r == Message_to_octo(msgs[k], OutcomeAt(outs, k))
         IN  IF ~r.ok THEN r ELSE to_octo_from(msgs, k + 1, outs, Append(done, r.val))

MessageCollection_to_octo(msgs, outs) == to_octo_from(msgs, 1, outs, << >>)

IsObjectOf(z, class) == z.t = "object" /\ z.v.class = class

\* the loop refusing an entry that is neither a Message nor a field map
RECURSIVE php_array_to_messages_strict(_, _, _, _)
php_array_to_messages_strict(arr, k, outs, done) ==
    IF k > Len(arr) THEN Ok(done)
    ELSE LET item == arr[k].val
             r == IF IsObjectOf(item, "Message")
                  THEN Message_to_octo(item.v.obj, OutcomeAt(outs, k))
                  ELSE IF IsSome(Zval_array(item))
                  THEN LET msg == Message_from_array(Unwrap(Zval_array(item)))
                       IN  IF msg.ok THEN Message_to_octo(msg.val, OutcomeAt(outs, k))
                           ELSE msg
                  ELSE Err(ValidationError(<<"Messages must be an array or MessageCollection">>))
         IN  IF ~r.ok THEN r
             ELSE php_array_to_messages_strict(arr, k + 1, outs, Append(done, r.val))

\* the loop of php_to_messages over the entries of a host array
RECURSIVE php_array_to_messages(_, _, _, _)
php_array_to_messages(arr, k, outs, done) ==
    IF k > Len(arr) THEN Ok(done)
    ELSE LET item == arr[k].val
         IN  IF IsObjectOf(item, "Message")
             THEN LET r == Message_to_octo(item.v.obj, OutcomeAt(outs, k))
                  IN  IF ~r.ok THEN r
                      ELSE php_array_to_messages(arr, k + 1, outs, Append(done, r.val))
             ELSE IF IsSome(Zval_array(item))
             THEN LET msg == Message_from_array(Unwrap(Zval_array(item)))
                      r == IF msg.ok
                           THEN Message_to_octo(msg.val, OutcomeAt(outs, k))
                           ELSE msg
                  IN  IF ~r.ok THEN r
                      ELSE php_array_to_messages(arr, k + 1, outs, Append(done, r.val))
             ELSE php_array_to_messages(arr, k + 1, outs, done)

php_to_messages(z, outs) ==
    IF IsObjectOf(z, "MessageCollection")
    THEN MessageCollection_to_octo(z.v.obj, outs)
    ELSE IF IsSome(Zval_array(z))
    THEN php_array_to_messages(Unwrap(Zval_array(z)), 1, outs, << >>)
    ELSE Err(ValidationError(<<"Messages must be an array or MessageCollection">>))

(***************************************************************************)
(* llm_class.rs, structured_builder.rs, tool_builder.rs: the handle, the   *)
(* builders and the responses.  An f32 setting is kept in tenths.          *)
(***************************************************************************)
DefaultTemperature == 7
DefaultMaxTokens == 1000
DefaultTopP == 10
DefaultPenalty == 0
TopK == 50

LLM_construct(model) ==
    Ok([model |-> model, temperature |-> DefaultTemperature,
        max_tokens |-> DefaultMaxTokens, top_p |-> DefaultTopP,
        frequency_penalty |-> DefaultPenalty, presence_penalty |-> DefaultPenalty])

StructuredBuilder_new(model, temperature, max_tokens, top_p, schema) ==
    [model |-> model, temperature |-> temperature, max_tokens |-> max_tokens,
     top_p |-> top_p, schema |-> schema, format |-> "json"]

\* structured() that starts the builder from the defaults
LLM_structured_defaults(self, schema) ==
    Ok(StructuredBuilder_new(self.model, DefaultTemperature, DefaultMaxTokens, DefaultTopP,
                             schema))

LLM_structured(self, schema) ==
    Ok(StructuredBuilder_new(self.model, self.temperature, self.max_tokens, self.top_p,
                             schema))

ToolBuilder_new(model, temperature, max_tokens, top_p, tools) ==
    [model |-> model, temperature |-> temperature, max_tokens |-> max_tokens,
     top_p |-> top_p, tools |-> tools, auto_execute |-> FALSE]

\* with_tools keeps the entries of the list that are Tool objects
LLM_with_tools(self, tools) ==
    LET objs == IF IsSome(tools)
                THEN SelectSeq(Unwrap(tools), LAMBDA e : IsObjectOf(e.val, "Tool"))
                ELSE << >>
    IN  Ok(ToolBuilder_new(self.model, self.temperature, self.max_tokens, self.top_p,
                           [k \in 1..Len(objs) |-> objs[k].val.v.obj]))

(***************************************************************************)
(* The casts of the setters, at a reduced width like the integers above:   *)
(* U32Bits stands for the 32 bits of max_tokens, F32Bits for the 24 bits   *)
(* of the f32 significand (a setting is in tenths, so the tenths up to     *)
(* 2^F32Bits are exact and the spacing doubles with each power of two).    *)
(***************************************************************************)
U32Bits == 12
F32Bits == 5

\* `i as u32` of an i64
as_u32(i) == i % (2 ^ U32Bits)

RECURSIVE F32Spacing(_)
F32Spacing(a) == IF a < 2 ^ F32Bits THEN 1 ELSE 2 * F32Spacing(a \div 2)

\* `x as f32` of an f64
as_f32(x) ==
    IF x < 0 THEN -RoundHalfEven(-x, F32Spacing(-x))
    ELSE RoundHalfEven(x, F32Spacing(x))

LLM_set_temperature_and_top_p(self, temperature) ==
    [self EXCEPT !.temperature = as_f32(temperature), !.top_p = as_f32(temperature)]

LLM_set_temperature(self, temperature) ==
    [self EXCEPT !.temperature = as_f32(temperature)]

LLM_set_max_tokens(self, max_tokens) == [self EXCEPT !.max_tokens = as_u32(max_tokens)]

LLM_set_top_p(self, top_p) == [self EXCEPT !.top_p = as_f32(top_p)]

LLM_set_frequency_penalty(self, penalty) ==
    [self EXCEPT !.frequency_penalty = as_f32(penalty)]

LLM_set_presence_penalty(self, penalty) ==
    [self EXCEPT !.presence_penalty = as_f32(penalty)]

StructuredBuilder_set_temperature(self, temperature) ==
    [self EXCEPT !.temperature = as_f32(temperature)]

StructuredBuilder_set_max_tokens(self, max_tokens) ==
    [self EXCEPT !.max_tokens = as_u32(max_tokens)]

ToolBuilder_set_temperature(self, temperature) ==
    [self EXCEPT !.temperature = as_f32(temperature)]

ToolBuilder_set_max_tokens(self, max_tokens) ==
    [self EXCEPT !.max_tokens = as_u32(max_tokens)]

\* options.get(key).and_then(|v| v.double()) and .and_then(|v| v.long())
option_double(options, key, mode) ==
    IF IsSome(HashGet(options, key))
    THEN Zval_double(Unwrap(HashGet(options, key)), mode)
    ELSE None

option_long(options, key) ==
    IF IsSome(HashGet(options, key)) THEN Zval_long(Unwrap(HashGet(options, key)))
    ELSE None

\* the five `if let Some(..)` of with_options, applied to base in turn
with_options_from(base, options, mode) ==
    LET temp == option_double(options, "temperature", mode)
        tokens == option_long(options, "max_tokens")
        top_p == option_double(options, "top_p", mode)
        fp == option_double(options, "frequency_penalty", mode)
        pp == option_double(options, "presence_penalty", mode)
    IN  [base EXCEPT
            !.temperature = IF IsSome(temp) THEN as_f32(Unwrap(temp)) ELSE @,
            !.max_tokens = IF IsSome(tokens) THEN as_u32(Unwrap(tokens)) ELSE @,
            !.top_p = IF IsSome(top_p) THEN as_f32(Unwrap(top_p)) ELSE @,
            !.frequency_penalty = IF IsSome(fp) THEN as_f32(Unwrap(fp)) ELSE @,
            !.presence_penalty = IF IsSome(pp) THEN as_f32(Unwrap(pp)) ELSE @]

\* with_options that starts from the defaults again
LLM_with_options_resetting(self, options, mode) ==
    with_options_from(LLM_construct(self.model).val, options, mode)

LLM_with_options(self, options, mode) == with_options_from(self, options, mode)

(***************************************************************************)
(* tool_builder.rs: the two ways of making a Tool, and the tool list of a  *)
(* ToolBuilder.                                                            *)
(***************************************************************************)
\* the parameters as JSON text: a string as it is, a table serialized
tool_params_json(parameters, mode) ==
    IF IsSome(Zval_string(parameters, mode))
    THEN Ok(Unwrap(Zval_string(parameters, mode)))
    ELSE IF IsSome(Zval_array(parameters))
    THEN Ok(serde_json_to_string(zval_to_json_value(parameters, mode)))
    ELSE Err(ValidationError(<<"Parameters must be a string or array">>))

\* new Tool(name, description, parameters): the text is parsed once, to
\* validate it
Tool_construct(name, description, parameters, mode) ==
    LET params_json == tool_params_json(parameters, mode)
    IN  IF ~params_json.ok THEN params_json
        ELSE IF ~serde_json_from_str(params_json.val).ok
        THEN Err(ValidationError(<<"Invalid JSON schema: ",
                                   serde_json_from_str(params_json.val).err>>))
        ELSE Ok([name |-> name, description |-> description,
                 parameters |-> params_json.val])

\* data.get(key).and_then(|v| v.str())
StrEntry(data, key) ==
    IF IsSome(HashGet(data, key)) THEN Zval_str(Unwrap(HashGet(data, key))) ELSE None

\* Tool::from_array(data): the text is stored as it comes
Tool_from_array(data, mode) ==
    IF ~IsSome(StrEntry(data, "name"))
    THEN Err(ValidationError(<<"Tool must have 'name' field">>))
    ELSE IF ~IsSome(StrEntry(data, "description"))
    THEN Err(ValidationError(<<"Tool must have 'description' field">>))
    ELSE IF ~IsSome(HashGet(data, "parameters"))
    THEN Err(ValidationError(<<"Tool must have 'parameters' field">>))
    ELSE LET params_json == tool_params_json(Unwrap(HashGet(data, "parameters")), mode)
         IN  IF ~params_json.ok THEN params_json
             ELSE Ok([name |-> Unwrap(StrEntry(data, "name")),
                      description |-> Unwrap(StrEntry(data, "description")),
                      parameters |-> params_json.val])

ToolBuilder_add_tool(self, tool) == [self EXCEPT !.tools = Append(@, tool)]

\* set_tools: the list is cleared, then every entry that is a table
\* Tool::from_array accepts is pushed; the other entries are passed over
ToolBuilder_set_tools(self, tools, mode) ==
    LET kept == SelectSeq(tools, LAMBDA e : /\ IsSome(Zval_array(e.val))
                                            /\ Tool_from_array(e.val.v, mode).ok)
    IN  [self EXCEPT !.tools = [k \in 1..Len(kept) |->
                                   Tool_from_array(kept[k].val.v, mode).val]]

Tool_to_octo(tool) ==
    LET params_value == serde_json_from_str(tool.parameters)
    IN  IF ~params_value.ok
        THEN Err(ValidationError(<<"Invalid parameters JSON: ", params_value.err>>))
        ELSE Ok([name |-> tool.name, description |-> tool.description,
                 parameters |-> params_value.val, cache_control |-> None])

\* a collect that passes over the tools it cannot translate
RECURSIVE tools_to_octo_skipping(_, _)
tools_to_octo_skipping(tools, done) ==
    IF tools = << >> THEN Ok(done)
    ELSE LET r == Tool_to_octo(Head(tools))
         IN  tools_to_octo_skipping(Tail(tools),
                                    IF r.ok THEN Append(done, r.val) ELSE done)

\* this.tools.iter().map(|t| t.to_octo()).collect()
RECURSIVE tools_to_octo(_, _)
tools_to_octo(tools, done) ==
    IF tools = << >> THEN Ok(done)
    ELSE LET r == Tool_to_octo(Head(tools))
         IN  IF ~r.ok THEN r ELSE tools_to_octo(Tail(tools), Append(done, r.val))

ZeroUsage == [prompt_tokens |-> 0, output_tokens |-> 0, total_tokens |-> 0]

Usage_from_octo(usage) ==
    [prompt_tokens |-> usage.prompt_tokens, output_tokens |-> usage.output_tokens,
     total_tokens |-> usage.total_tokens]

Response_new(content, usage, model, finish_reason) ==
    [content |-> content, usage |-> Usage_from_octo(usage), model |-> model,
     finish_reason |-> finish_reason]

StructuredResponse_new(content, structured, usage, model) ==
    [content |-> content, usage |-> Usage_from_octo(usage), model |-> model,
     structured |-> structured]

\* a constructor that drops the provider's counters
ToolResponse_new_zero_usage(content, tool_calls, usage, model, response_id) ==
    [content |-> content, tool_calls |-> tool_calls, response_id |-> response_id,
     usage |-> Usage_from_octo(ZeroUsage), model |-> model]

ToolResponse_new_with_opt_usage(content, tool_calls, usage, model, response_id) ==
    [content |-> content, tool_calls |-> tool_calls, response_id |-> response_id,
     usage |-> Usage_from_octo(IF IsSome(usage) THEN Unwrap(usage) ELSE ZeroUsage),
     model |-> model]

ChatCompletionParams_new(msgs, model, temperature, top_p, top_k, max_tokens) ==
    [model |-> model, messages |-> msgs, temperature |-> temperature,
     max_tokens |-> max_tokens, top_p |-> top_p, top_k |-> top_k,
     tools |-> None, structured_output |-> None]

\* one interaction with octolib during a call, and what it answered
Event(name, arg, res) == [name |-> name, arg |-> arg, res |-> res]

Returned(res, trace) == [res |-> res, trace |-> trace]

UsageOrZero(response) ==
    IF IsSome(response.usage) THEN Unwrap(response.usage) ELSE ZeroUsage

StructuredError(text) == PhpException("LLMStructuredOutputException", text)

\* LLM::complete from the request on
\* LLM::complete asking the provider a second time after a failure
llm_dispatch_retrying(self, messages_vec, model, env, trace) ==
    LET params == ChatCompletionParams_new(messages_vec, model, self.temperature,
                                           self.top_p, TopK, self.max_tokens)
        asked == Append(trace, Event("chat_completion", params, env.completion))
    IN  IF ~env.completion.ok
        THEN Returned(Err(into_php_exception(env.completion.err)),
                      Append(asked, Event("chat_completion", params, env.completion)))
        ELSE LET response == env.completion.val
             IN  Returned(Ok(Response_new(
                                 response.content, UsageOrZero(response), model,
                                 IF IsSome(response.finish_reason)
                                 THEN Unwrap(response.finish_reason) ELSE "stop")),
                          asked)

\* LLM::complete handing the two penalties on with the request
llm_dispatch_with_penalties(self, messages_vec, model, env, trace) ==
    LET params == [model |-> model, messages |-> messages_vec,
                   temperature |-> self.temperature, max_tokens |-> self.max_tokens,
                   top_p |-> self.top_p, top_k |-> TopK,
                   frequency_penalty |-> self.frequency_penalty,
                   presence_penalty |-> self.presence_penalty,
                   tools |-> None, structured_output |-> None]
        asked == Append(trace, Event("chat_completion", params, env.completion))
    IN  IF ~env.completion.ok
        THEN Returned(Err(into_php_exception(env.completion.err)), asked)
        ELSE LET response == env.completion.val
             IN  Returned(Ok(Response_new(
                                 response.content, UsageOrZero(response), model,
                                 IF IsSome(response.finish_reason)
                                 THEN Unwrap(response.finish_reason) ELSE "stop")),
                          asked)

llm_dispatch(self, messages_vec, model, env, trace) ==
    LET params == ChatCompletionParams_new(messages_vec, model, self.temperature,
                                           self.top_p, TopK, self.max_tokens)
        asked == Append(trace, Event("chat_completion", params, env.completion))
    IN  IF ~env.completion.ok
        THEN Returned(Err(into_php_exception(env.completion.err)), asked)
        ELSE LET response == env.completion.val
             IN  Returned(Ok(Response_new(
                                 response.content, UsageOrZero(response), model,
                                 IF IsSome(response.finish_reason)
                                 THEN Unwrap(response.finish_reason) ELSE "stop")),
                          asked)

\* the provider resolved before the messages are converted
LLM_complete_resolving_first(self, input, env) ==
    LET trace == <<Event("get_provider_for_model", self.model, env.resolve)>>
        messages_vec == php_to_messages(input, env.outs)
    IN  IF ~env.resolve.ok
        THEN Returned(Err(into_php_exception(env.resolve.err)), trace)
        ELSE IF ~messages_vec.ok THEN Returned(messages_vec, trace)
        ELSE llm_dispatch(self, messages_vec.val, env.resolve.val.model, env, trace)

LLM_complete(self, input, env) ==
    LET messages_vec == php_to_messages(input, env.outs)
        trace == <<Event("get_provider_for_model", self.model, env.resolve)>>
    IN  IF ~messages_vec.ok THEN Returned(messages_vec, << >>)
        ELSE IF ~env.resolve.ok
        THEN Returned(Err(into_php_exception(env.resolve.err)), trace)
        ELSE llm_dispatch(self, messages_vec.val, env.resolve.val.model, env, trace)

\* StructuredBuilder::complete from the schema on
\* a dispatch that sends the request before it looks at the schema
structured_dispatch_unparsed(self, messages_vec, model, env, trace) ==
    LET schema_value == IF IsSome(self.schema)
                        THEN serde_json_from_str(Unwrap(self.schema))
                        ELSE Ok(JNull)
        structured_request == IF IsSome(self.schema) /\ schema_value.ok
                              THEN [t |-> "json_schema", v |-> schema_value.val]
                              ELSE [t |-> "json", v |-> << >>]
        params == [ChatCompletionParams_new(messages_vec, model, self.temperature,
                                            self.top_p, TopK, self.max_tokens)
                     EXCEPT !.structured_output = Some(structured_request)]
        asked == Append(trace, Event("chat_completion", params, env.completion))
    IN  IF ~schema_value.ok
        THEN Returned(Err(StructuredError(<<"Invalid JSON schema: ", schema_value.err>>)),
                      asked)
        ELSE IF ~env.completion.ok
        THEN Returned(Err(into_php_exception(env.completion.err)), asked)
        ELSE LET response == env.completion.val
                 structured_php == json_value_to_php(Unwrap(response.structured_output))
             IN  IF ~IsSome(response.structured_output)
                 THEN Returned(Err(StructuredError(<<"No structured output in response">>)),
                               asked)
                 ELSE IF ~structured_php.ok THEN Returned(structured_php, asked)
                 ELSE Returned(Ok(StructuredResponse_new(
                                      response.content, structured_php.val,
                                      UsageOrZero(response), model)),
                               asked)

structured_dispatch(self, messages_vec, model, env, trace) ==
    LET schema_value == IF IsSome(self.schema)
                        THEN serde_json_from_str(Unwrap(self.schema))
                        ELSE Ok(JNull)
        structured_request == IF IsSome(self.schema)
                              THEN [t |-> "json_schema", v |-> schema_value.val]
                              ELSE [t |-> "json", v |-> << >>]
        params == [ChatCompletionParams_new(messages_vec, model, self.temperature,
                                            self.top_p, TopK, self.max_tokens)
                     EXCEPT !.structured_output = Some(structured_request)]
        asked == Append(trace, Event("chat_completion", params, env.completion))
    IN  IF ~schema_value.ok
        THEN Returned(Err(StructuredError(<<"Invalid JSON schema: ", schema_value.err>>)),
                      trace)
        ELSE IF ~env.completion.ok
        THEN Returned(Err(into_php_exception(env.completion.err)), asked)
        ELSE LET response == env.completion.val
                 structured_php == json_value_to_php(Unwrap(response.structured_output))
             IN  IF ~IsSome(response.structured_output)
                 THEN Returned(Err(StructuredError(<<"No structured output in response">>)),
                               asked)
                 ELSE IF ~structured_php.ok THEN Returned(structured_php, asked)
                 ELSE Returned(Ok(StructuredResponse_new(
                                      response.content, structured_php.val,
                                      UsageOrZero(response), model)),
                               asked)

\* the answer of supports_structured_output asked for and not looked at
StructuredBuilder_complete_unchecked(self, input, env) ==
    LET messages_vec == php_to_messages(input, env.outs)
        trace == <<Event("get_provider_for_model", self.model, env.resolve)>>
    IN  IF ~messages_vec.ok THEN Returned(messages_vec, << >>)
        ELSE IF ~env.resolve.ok
        THEN Returned(Err(into_php_exception(env.resolve.err)), trace)
        ELSE structured_dispatch(
                 self, messages_vec.val, env.resolve.val.model, env,
                 Append(trace, Event("supports_structured_output",
                                     env.resolve.val.model, env.supports)))

StructuredBuilder_complete(self, input, env) ==
    LET messages_vec == php_to_messages(input, env.outs)
        trace == <<Event("get_provider_for_model", self.model, env.resolve)>>
    IN  IF ~messages_vec.ok THEN Returned(messages_vec, << >>)
        ELSE IF ~env.resolve.ok
        THEN Returned(Err(into_php_exception(env.resolve.err)), trace)
        ELSE LET model == env.resolve.val.model
                 queried == Append(trace, Event("supports_structured_output", model,
                                                env.supports))
             IN  IF ~env.supports
                 THEN Returned(
                          Err(StructuredError(
                                  <<"Structured output not supported by this provider/model">>)),
                          queried)
                 ELSE structured_dispatch(self, messages_vec.val, model, env, queried)

\* ToolCall::get_arguments: the stored text parsed and handed to the host;
\* null when either step fails
ToolCall_get_arguments(self) ==
    LET json_value == serde_json_from_str(self.arguments_json)
    IN  IF ~json_value.ok THEN ZNull
        ELSE IF ~json_value_to_php(json_value.val).ok THEN ZNull
        ELSE json_value_to_php(json_value.val).val

ToolResponse_get_tool_calls(self) == self.tool_calls

\* a collect that ends with the calls in the opposite order
RECURSIVE tool_calls_reversed(_, _)
tool_calls_reversed(calls, done) ==
    IF calls = << >> THEN Ok(done)
    ELSE LET c == ToolCall_new(Head(calls).id, Head(calls).name, Head(calls).arguments)
         IN  IF ~c.ok THEN c ELSE tool_calls_reversed(Tail(calls), <<c.val>> \o done)

\* calls.iter().map(|c| ToolCall::new(..)).collect()
RECURSIVE tool_calls_from(_, _)
tool_calls_from(calls, done) ==
    IF calls = << >> THEN Ok(done)
    ELSE LET c == ToolCall_new(Head(calls).id, Head(calls).name, Head(calls).arguments)
         IN  IF ~c.ok THEN c ELSE tool_calls_from(Tail(calls), Append(done, c.val))

ToolBuilder_complete(self, input, env) ==
    LET messages_vec == php_to_messages(input, env.outs)
        trace == <<Event("get_provider_for_model", self.model, env.resolve)>>
    IN  IF ~messages_vec.ok THEN Returned(messages_vec, << >>)
        ELSE IF ~env.resolve.ok
        THEN Returned(Err(into_php_exception(env.resolve.err)), trace)
        ELSE LET model == env.resolve.val.model
                 octo_tools == tools_to_octo(self.tools, << >>)
                 params == [ChatCompletionParams_new(messages_vec.val, model,
                                                     self.temperature, self.top_p, TopK,
                                                     self.max_tokens)
                              EXCEPT !.tools = Some(octo_tools.val)]
                 asked == Append(trace, Event("chat_completion", params, env.completion))
             IN  IF ~octo_tools.ok THEN Returned(octo_tools, trace)
                 ELSE IF ~env.completion.ok
                 THEN Returned(Err(into_php_exception(env.completion.err)), asked)
                 ELSE LET response == env.completion.val
                          tool_calls == IF IsSome(response.tool_calls)
                                        THEN tool_calls_from(Unwrap(response.tool_calls), << >>)
                                        ELSE Ok(<< >>)
                      IN  IF ~tool_calls.ok THEN Returned(tool_calls, asked)
                          ELSE Returned(Ok(ToolResponse_new_with_opt_usage(
                                               response.content, tool_calls.val,
                                               response.usage, model,
                                               response.response_id)),
                                        asked)

(***************************************************************************)
(* The serializers of the Response family: to_array builds a host table,   *)
(* to_json the text serde_json writes of a document.  X_json is the        *)
(* document handed to serde_json::to_string.                               *)
(***************************************************************************)
Usage_to_array(self) ==
    ZArray(<<Entry(KeyStr("prompt_tokens"), ZLong(self.prompt_tokens)),
             Entry(KeyStr("output_tokens"), ZLong(self.output_tokens)),
             Entry(KeyStr("total_tokens"), ZLong(self.total_tokens))>>)

Usage_json(self) ==
    JObject([prompt_tokens |-> JInt(self.prompt_tokens),
             output_tokens |-> JInt(self.output_tokens),
             total_tokens |-> JInt(self.total_tokens)])

Response_to_array(self) ==
    Ok(ZArray(<<Entry(KeyStr("content"), ZString(self.content)),
                Entry(KeyStr("usage"), Usage_to_array(self.usage)),
                Entry(KeyStr("model"), ZString(self.model)),
                Entry(KeyStr("finish_reason"), ZString(self.finish_reason))>>))

Response_json(self) ==
    JObject([content |-> JString(self.content), usage |-> Usage_json(self.usage),
             model |-> JString(self.model),
             finish_reason |-> JString(self.finish_reason)])

Response_to_json(self) == Ok(serde_json_to_string(Response_json(self)))

\* the scalar entries of the structured table, re-inserted one by one; an
\* entry that is neither a string, a long nor a bool is passed over
structured_reinserted(h, mode) ==
    LET kept == SelectSeq(h, LAMBDA e : \/ IsSome(Zval_string(e.val, mode))
                                        \/ IsSome(Zval_long(e.val))
                                        \/ IsSome(Zval_bool(e.val)))
    IN  [i \in 1..Len(kept) |->
            Entry(kept[i].key,
                  IF IsSome(Zval_string(kept[i].val, mode))
                  THEN ZString(Unwrap(Zval_string(kept[i].val, mode)))
                  ELSE kept[i].val)]

\* get_structured returns a new, empty Zval, whatever the object holds
StructuredResponse_get_structured(self) == ZNull

\* the "structured" entry is inserted for a string and for a table only
StructuredResponse_to_array(self, mode) ==
    LET structured_entry ==
            IF IsSome(Zval_string(self.structured, mode))
            THEN <<Entry(KeyStr("structured"),
                         ZArray(<<Entry(KeyStr("json"),
                                        ZString(Unwrap(Zval_string(self.structured, mode))))>>))>>
            ELSE IF IsSome(Zval_array(self.structured))
            THEN <<Entry(KeyStr("structured"),
                         ZArray(structured_reinserted(Unwrap(Zval_array(self.structured)),
                                                      mode)))>>
            ELSE << >>
    IN  Ok(ZArray(<<Entry(KeyStr("content"), ZString(self.content))>>
                  \o structured_entry
                  \o <<Entry(KeyStr("usage"), ZObject("Usage", self.usage)),
                       Entry(KeyStr("model"), ZString(self.model))>>))

structured_scalar(z, mode) ==
    IF IsSome(Zval_string(z, mode)) THEN JString(Unwrap(Zval_string(z, mode)))
    ELSE IF IsSome(Zval_long(z)) THEN JInt(Unwrap(Zval_long(z)))
    ELSE IF IsSome(Zval_bool(z)) THEN JBool(Unwrap(Zval_bool(z)))
    ELSE JNull

StructuredResponse_json(self, mode) ==
    LET structured_value ==
            IF IsSome(Zval_string(self.structured, mode))
            THEN JString(Unwrap(Zval_string(self.structured, mode)))
            ELSE IF IsSome(Zval_array(self.structured))
            THEN LET h == Unwrap(Zval_array(self.structured))
                 IN  JObject([kt \in {ArrayKeyText(h[i].key) : i \in DOMAIN h} |->
                                 structured_scalar(LastWithKey(h, kt), mode)])
            ELSE JNull
    IN  JObject([content |-> JString(self.content), usage |-> Usage_json(self.usage),
                 model |-> JString(self.model), structured |-> structured_value])

StructuredResponse_to_json(self, mode) ==
    Ok(serde_json_to_string(StructuredResponse_json(self, mode)))

\* response_id is inserted only when the response has one
ToolResponse_to_array(self) ==
    LET calls_arr == [i \in 1..Len(self.tool_calls) |->
                        Entry(KeyLong(i - 1), ZObject("ToolCall", self.tool_calls[i]))]
        id_entry == IF IsSome(self.response_id)
                    THEN <<Entry(KeyStr("response_id"), ZString(Unwrap(self.response_id)))>>
                    ELSE << >>
    IN  Ok(ZArray(<<Entry(KeyStr("content"), ZString(self.content)),
                    Entry(KeyStr("tool_calls"), ZArray(calls_arr)),
                    Entry(KeyStr("usage"), ZObject("Usage", self.usage)),
                    Entry(KeyStr("model"), ZString(self.model))>>
                  \o id_entry))

ToolResponse_json(self) ==
    LET calls == [i \in 1..Len(self.tool_calls) |->
                    JObject([id |-> JString(self.tool_calls[i].id),
                             name |-> JString(self.tool_calls[i].name),
                             arguments |-> JString(self.tool_calls[i].arguments_json)])]
    IN  JObject([content |-> JString(self.content), tool_calls |-> JArray(calls),
                 response_id |-> IF IsSome(self.response_id)
                                 THEN JString(Unwrap(self.response_id))
                                 ELSE JNull,
                 usage |-> Usage_json(self.usage), model |-> JString(self.model)])

ToolResponse_to_json(self) == Ok(serde_json_to_string(ToolResponse_json(self)))

(***************************************************************************)
(* SpecCall: one complete() call in each mode.  octolib's side of the call *)
(* (what the resolver, the provider and MessageBuilder answer) is drawn    *)
(* with the inputs; trace records which of them the call asked, in order.  *)
(***************************************************************************)
Models == {"openai:gpt-4o", "acme:unknown-1"}
Served == {"openai:gpt-4o"}

Resolved(model) == [model |-> "gpt-4o", provider |-> "openai"]

\* the failures octolib may answer with for a call about this model
Failures(model) ==
    {Failure("NetworkError", <<"connection refused">>),
     Failure("ApiError", <<"openai", "404", "no such model">>),
     Failure("ModelNotSupported", <<model, "openai">>),
     Failure("TimeoutError", <<"openai">>),
     Failure("ProviderError", <<"MissingApiKey">>),
     Failure("StructuredOutputError", <<"Unsupported">>),
     Failure("ToolCallError", <<"Unsupported">>),
     Failure("anyhow", <<"Unsupported provider in ", model>>),
     Failure("anyhow_context", <<"request failed", "dns lookup failed">>)}

ResolveAnswers(model) ==
    IF model \in Served THEN {Ok(Resolved(model))}
    ELSE {Err(f) : f \in Failures(model)}

ProviderToolCalls ==
    <<[id |-> "call_1", name |-> "get_weather",
       arguments |-> JObject([location |-> JString("Boston")])],
      [id |-> "call_2", name |-> "get_weather", arguments |-> JObject(<< >>)]>>

ProviderResponses ==
    {[content |-> "hello", tool_calls |-> calls,
      response_id |-> IF IsSome(calls) THEN Some("resp_1") ELSE None,
      usage |-> u, finish_reason |-> reason, structured_output |-> payload] :
        calls \in {None, Some(<< >>), Some(ProviderToolCalls)},
        u \in {None, Some([prompt_tokens |-> 3, output_tokens |-> 5, total_tokens |-> 8])},
        reason \in {None, Some("length")},
        payload \in {None, Some(JObject([a |-> JInt(1)])), Some(JNull)}}

CompletionAnswers(model) ==
    {Ok(r) : r \in ProviderResponses} \cup {Err(f) : f \in Failures(model)}

Outs == {<< >>, <<"err">>, <<"ok", "err">>}

Envs(model, supporting) ==
    {[resolve |-> r, supports |-> sup, completion |-> c, outs |-> o] :
        r \in ResolveAnswers(model), sup \in supporting,
        c \in CompletionAnswers(model), o \in Outs}

ToolMapWithId ==
    FieldMap(Some(ZString("tool")), Some(ZString("hi")), Some(ZString("call_1")), None, None)

\* what a caller hands to complete() as the messages
MessageInputs ==
    {ZObject("MessageCollection", <<MadeUser.val, MadeTool.val>>),
     ZObject("MessageCollection", <<MadeUser.val, Message_from_array(ToolMapNoId).val>>),
     ZArray(<< >>),
     ZArray(PhpList(<<ZArray(UserMap), ZArray(ToolMapWithId)>>)),
     ZArray(PhpList(<<ZObject("Message", MadeUser.val), ZArray(NoRoleMap)>>)),
     ZArray(PhpList(<<ZString("hi"), ZArray(UserMap)>>)),
     ZString("hi")}

Schemas == {None, Some("{}"), Some("{bad")}

GoodTool == [name |-> "get_weather", description |-> "weather", parameters |-> "{}"]
BadTool == [name |-> "broken", description |-> "weather", parameters |-> "{bad"]

ToolLists ==
    {None,
     Some(PhpList(<<ZObject("Tool", GoodTool)>>)),
     Some(PhpList(<<ZObject("Tool", BadTool)>>)),
     Some(PhpList(<<ZString("hi"), ZObject("Tool", GoodTool), ZObject("Tool", BadTool)>>))}

InitCall ==
    /\ call = [mode |-> "none"]
    /\ IdleConv /\ IdleMsg /\ IdleColl /\ IdleCfg

Called(mode, self, input, env, returned) ==
    /\ call' = [res |-> returned.res, input |-> input, mode |-> mode,
                trace |-> returned.trace, outs |-> env.outs, self |-> self]
    /\ UNCHANGED <<convVars, msgVars, collVars, cfgVars>>

\* the handles a call is made on or a builder is taken from: a new one, one
\* whose penalties were set, and one given options
PenaltyOptions ==
    HashInsert(HashInsert(HashInsert(<< >>, "temperature", ZDouble(0)),
                          "frequency_penalty", ZDouble(3)),
               "presence_penalty", ZDouble(3))

CallHandles(model) ==
    {LLM_construct(model).val,
     LLM_set_presence_penalty(LLM_set_frequency_penalty(LLM_construct(model).val, 3), 3),
     LLM_with_options(LLM_construct(model).val, PenaltyOptions, "strict")}

\* (new LLM(model))->complete(messages)
LLMComplete ==
    /\ call.mode = "none"
    /\ \E model \in Models, input \in MessageInputs :
          \E env \in Envs(model, {TRUE}), self \in CallHandles(model) :
              Called("llm", self, input, env, LLM_complete(self, input, env))

\* (new LLM(model))->structured(schema)->complete(messages)
StructuredComplete ==
    /\ call.mode = "none"
    /\ \E model \in Models, input \in MessageInputs, schema \in Schemas :
          \E env \in Envs(model, BOOLEAN), handle \in CallHandles(model) :
              LET self == LLM_structured(handle, schema).val
              IN  Called("structured", self, input, env,
                         StructuredBuilder_complete(self, input, env))

\* (new LLM(model))->with_tools(tools)->complete(messages)
ToolComplete ==
    /\ call.mode = "none"
    /\ \E model \in Models, input \in MessageInputs, tools \in ToolLists :
          \E env \in Envs(model, {TRUE}), handle \in CallHandles(model) :
              LET self == LLM_with_tools(handle, tools).val
              IN  Called("tools", self, input, env, ToolBuilder_complete(self, input, env))

NextCall == LLMComplete \/ StructuredComplete \/ ToolComplete

SpecCall == InitCall /\ [][NextCall]_vars

(***************************************************************************)
(* Claims about a complete() call.                                         *)
(***************************************************************************)
InCall == call.mode # "none"

Asked(name) == \E k \in 1..Len(call.trace) : call.trace[k].name = name

\* the messages of the call in octolib's form, or the error of converting them
Converted == php_to_messages(call.input, call.outs)

\* C1: in StructuredBuilder.complete, whatever the messages and the schema,
\* when the resolved provider's supports_structured_output(model) returns
\* false the call fails with StructuredOutputError and the provider's
\* completion operation is never invoked during that call.
C1_UnsupportedFailsFast ==
    (/\ call.mode = "structured"
     /\ \E k \in 1..Len(call.trace) :
           /\ call.trace[k].name = "supports_structured_output"
           /\ call.trace[k].res = FALSE) =>
        /\ ~call.res.ok
        /\ call.res.err.class = "LLMStructuredOutputException"
        /\ ~Asked("chat_completion")

\* the provider of a served model said no to a call whose schema is no JSON
C1_Witness ==
    /\ call.mode = "structured"
    /\ call.self.schema = Some("{bad")
    /\ Len(call.trace) = 2
    /\ call.trace[2].name = "supports_structured_output"
    /\ call.trace[2].res = FALSE
    /\ ~call.res.ok
    /\ Names(call.res.err, "Structured output not supported by this provider/model")

\* C2 as stated: in all three modes the provider is resolved first, so that
\* a call whose model is unknown fails with the resolver's error whatever its
\* messages are.
C2_ResolutionFirst ==
    InCall =>
        /\ Asked("get_provider_for_model")
        /\ call.self.model \notin Served =>
              /\ ~call.res.ok
              /\ call.res.err = into_php_exception(call.trace[1].res.err)

\* C2 as amended: in all three modes the messages are converted first, then
\* the provider is resolved, then the request is built and dispatched: a call
\* whose messages are invalid fails with the message ValidationError without
\* the resolver being asked, also when its model is unknown, and the
\* resolver's error is only raised after the messages converted.
C2_ConversionFirst ==
    InCall =>
        /\ ~Converted.ok =>
              /\ call.res = Converted
              /\ call.res.err.class = "LLMValidationException"
              /\ call.trace = << >>
        /\ Converted.ok =>
              /\ call.trace # << >>
              /\ call.trace[1].name = "get_provider_for_model"
              /\ call.trace[1].arg = call.self.model
              /\ ~call.trace[1].res.ok =>
                    /\ call.res = Err(into_php_exception(call.trace[1].res.err))
                    /\ Len(call.trace) = 1
              /\ \A k \in 2..Len(call.trace) :
                    /\ call.trace[1].res.ok
                    /\ call.trace[k].name # "get_provider_for_model"
                    /\ call.trace[k].name = "chat_completion" =>
                          /\ k = Len(call.trace)
                          /\ call.trace[k].arg.messages = Converted.val
                          /\ call.trace[k].arg.model = call.trace[1].res.val.model

\* a call with an unknown model and messages that are no array failed with
\* the message error, the resolver not asked
C2_Witness ==
    /\ call.mode = "tools"
    /\ call.self.model \notin Served
    /\ call.input = ZString("hi")
    /\ ~call.res.ok
    /\ Names(call.res.err, "Messages must be an array or MessageCollection")
    /\ call.trace = << >>

ResolveFailed == InCall /\ call.trace # << >> /\ ~call.trace[1].res.ok

TableKeys(z) == {ArrayKeyText(z.v[i].key) : i \in DOMAIN z.v}

\* the key set the family's type of each mode is to emit
FamilyKeys(mode) ==
    CASE mode = "llm" -> {"content", "usage", "model", "finish_reason"}
      [] mode = "structured" -> {"content", "structured", "usage", "model"}
      [] mode = "tools" -> {"content", "tool_calls", "usage", "model", "response_id"}

\* the field map and the JSON document of the response the call returned
ReturnedArray(zmode) ==
    CASE call.mode = "llm" -> Response_to_array(call.res.val)
      [] call.mode = "structured" -> StructuredResponse_to_array(call.res.val, zmode)
      [] call.mode = "tools" -> ToolResponse_to_array(call.res.val)

ReturnedJson(zmode) ==
    CASE call.mode = "llm" -> Response_json(call.res.val)
      [] call.mode = "structured" -> StructuredResponse_json(call.res.val, zmode)
      [] call.mode = "tools" -> ToolResponse_json(call.res.val)

\* C12: to_array and to_json of every Response, StructuredResponse and
\* ToolResponse emit the fixed key set of their type, whatever the instance:
\* an absent value (response_id, structured) is a key holding null, never
\* a missing key, and the two forms carry the same keys.
C12_FixedKeySet ==
    (InCall /\ call.res.ok) =>
        \A zmode \in ZStrModes :
            /\ ReturnedArray(zmode).ok
            /\ TableKeys(ReturnedArray(zmode).val) = FamilyKeys(call.mode)
            /\ DOMAIN ReturnedJson(zmode).v = FamilyKeys(call.mode)

\* what holds instead for the JSON form alone
C12_JsonKeySet ==
    (InCall /\ call.res.ok) =>
        \A zmode \in ZStrModes : DOMAIN ReturnedJson(zmode).v = FamilyKeys(call.mode)

\* a ToolResponse without a response id: to_array has no response_id key
C12_OmitsResponseId ==
    /\ call.mode = "tools" /\ call.res.ok
    /\ call.res.val.response_id = None
    /\ "response_id" \notin TableKeys(ReturnedArray("strict").val)
    /\ ReturnedJson("strict").v["response_id"] = JNull

\* a StructuredResponse of a null payload: to_array has no structured key
C12_OmitsStructured ==
    /\ call.mode = "structured" /\ call.res.ok
    /\ "structured" \notin TableKeys(ReturnedArray("strict").val)
    /\ ReturnedJson("strict").v["structured"] = JNull


(***************************************************************************)
(* Claims about the response a successful call returns.                    *)
(***************************************************************************)
\* the provider's answer to the chat_completion of the call
Completion == call.trace[Len(call.trace)].res.val

Succeeded == InCall /\ call.res.ok

\* C15: in the three modes, the usage of the returned response is the
\* snapshot {0, 0, 0} when the provider's result carries no usage and the
\* provider's three counters, unchanged, when it carries one; the usage is
\* never absent.
C15_UsageDefault ==
    Succeeded =>
        /\ call.trace[Len(call.trace)].name = "chat_completion"
        /\ DOMAIN call.res.val.usage = {"prompt_tokens", "output_tokens", "total_tokens"}
        /\ IF Completion.usage = None
           THEN call.res.val.usage = ZeroUsage
           ELSE /\ call.res.val.usage.prompt_tokens = Unwrap(Completion.usage).prompt_tokens
                /\ call.res.val.usage.output_tokens = Unwrap(Completion.usage).output_tokens
                /\ call.res.val.usage.total_tokens = Unwrap(Completion.usage).total_tokens

\* a tool call whose provider sent no usage returned the zero snapshot
C15_Witness ==
    /\ Succeeded
    /\ call.mode = "tools"
    /\ Completion.usage = None
    /\ call.res.val.usage = ZeroUsage

\* a tool call whose provider sent counters returned them
C15_WitnessPresent ==
    /\ Succeeded
    /\ call.mode = "tools"
    /\ IsSome(Completion.usage)
    /\ call.res.val.usage.total_tokens = 8

\* the tool calls of the provider's answer, none when it has no list
ProviderCallsOf(response) ==
    IF IsSome(response.tool_calls) THEN Unwrap(response.tool_calls) ELSE << >>

\* C16: the ToolResponse of ToolBuilder.complete lists one ToolCall per
\* tool call of the provider, in the provider's order, each with the same
\* id, name and arguments; the list is empty when the provider returns no
\* tool calls, and has_tool_calls() is true exactly when it is not empty.
C16_ToolCalls ==
    (Succeeded /\ call.mode = "tools") =>
        LET given == ProviderCallsOf(Completion)
            got == ToolResponse_get_tool_calls(call.res.val)
        IN  /\ Len(got) = Len(given)
            /\ \A k \in 1..Len(given) :
                  /\ got[k].id = given[k].id
                  /\ got[k].name = given[k].name
                  /\ serde_json_from_str(got[k].arguments_json) = Ok(given[k].arguments)
                  /\ ToolCall_get_arguments(got[k]) = json_value_to_zval(given[k].arguments)
            /\ ToolResponse_has_tool_calls(call.res.val) <=> (got # << >>)
            /\ ToolResponse_has_tool_calls(call.res.val) <=> (Len(given) > 0)

\* the provider made two tool calls and the response lists them in order
C16_Witness ==
    /\ Succeeded
    /\ call.mode = "tools"
    /\ Len(ProviderCallsOf(Completion)) = 2
    /\ ToolResponse_has_tool_calls(call.res.val)
    /\ ToolResponse_get_tool_calls(call.res.val)[2].id = "call_2"
    /\ ToolResponse_get_tool_calls(call.res.val)[1].id # "call_2"

\* the provider declined: the list is empty and has_tool_calls() is false
C16_WitnessNone ==
    /\ Succeeded
    /\ call.mode = "tools"
    /\ Completion.tool_calls = None
    /\ ToolResponse_get_tool_calls(call.res.val) = << >>
    /\ ~ToolResponse_has_tool_calls(call.res.val)

\* the schema of the structured call is a text that is not JSON
BadSchema ==
    /\ call.mode = "structured"
    /\ IsSome(call.self.schema)
    /\ ~serde_json_from_str(Unwrap(call.self.schema)).ok

\* the answer the call got from the step called name, if it made the step
Answered(name, res) ==
    \E k \in 1..Len(call.trace) : call.trace[k].name = name /\ call.trace[k].res = res

\* C17: StructuredBuilder.complete with a schema that is not valid JSON
\* fails and the provider's completion is not invoked: the schema is
\* parsed before the dispatch.  The failure is a StructuredOutputError in
\* every call that came to the schema (its messages converted, its model
\* resolved), and it names the schema ("Invalid JSON schema") when the
\* provider supports structured output.
C17_BadSchemaNotDispatched ==
    BadSchema =>
        /\ ~call.res.ok
        /\ ~Asked("chat_completion")
        /\ Asked("supports_structured_output") =>
              call.res.err.class = "LLMStructuredOutputException"
        /\ Answered("supports_structured_output", TRUE) =>
              Names(call.res.err, "Invalid JSON schema: ")

\* a call with valid messages, a known model and a supporting provider
\* failed on its schema
C17_Witness ==
    /\ BadSchema
    /\ Answered("supports_structured_output", TRUE)
    /\ ~call.res.ok
    /\ call.res.err.class = "LLMStructuredOutputException"
    /\ Names(call.res.err, "Invalid JSON schema: ")
    /\ ~Asked("chat_completion")

\* the structured call came to the provider's answer
StructuredAnswered ==
    /\ call.mode = "structured"
    /\ Asked("chat_completion")
    /\ call.trace[Len(call.trace)].res.ok

\* C18: a structured completion never yields a null result: when the
\* provider's result lacks the structured payload the call fails with
\* StructuredOutputError; otherwise get_structured of the response returned
\* is the provider's payload as a host value, and it is not null.
C18_StructuredExposed ==
    StructuredAnswered =>
        IF Completion.structured_output = None
        THEN ~call.res.ok /\ call.res.err.class = "LLMStructuredOutputException"
        ELSE /\ call.res.ok
             /\ StructuredResponse_get_structured(call.res.val)
                    = json_value_to_zval(Unwrap(Completion.structured_output))
             /\ StructuredResponse_get_structured(call.res.val) # ZNull

\* the half of C18 that holds: a missing payload is a StructuredOutputError,
\* and the response object does hold the payload as a host value
C18_MissingPayloadFails ==
    StructuredAnswered =>
        IF Completion.structured_output = None
        THEN /\ ~call.res.ok
             /\ call.res.err.class = "LLMStructuredOutputException"
             /\ Names(call.res.err, "No structured output in response")
        ELSE /\ call.res.ok
             /\ call.res.val.structured
                    = json_value_to_zval(Unwrap(Completion.structured_output))

\* the provider sent the payload {"a": 1} and get_structured is null
C18_NullStructured ==
    /\ StructuredAnswered
    /\ Completion.structured_output = Some(JObject([a |-> JInt(1)]))
    /\ call.res.ok
    /\ call.res.val.structured # ZNull
    /\ StructuredResponse_get_structured(call.res.val) = ZNull

\* a tool of the builder holds parameters that are not JSON
HasBadTool ==
    /\ call.mode = "tools"
    /\ \E k \in DOMAIN call.self.tools :
          ~serde_json_from_str(call.self.tools[k].parameters).ok

\* the request the call handed to chat_completion
Dispatched == call.trace[Len(call.trace)].arg

C19_WitnessDispatched ==
    /\ call.mode = "tools"
    /\ Asked("chat_completion")
    /\ Len(call.self.tools) = 1
    /\ Unwrap(Dispatched.tools)[1].name = "get_weather"

\* the places of the trace where the provider's completion was invoked
CompletionsAsked == {k \in 1..Len(call.trace) : call.trace[k].name = "chat_completion"}

\* C22: one complete call, in any mode, invokes the provider's completion
\* operation at most once; a failure of the resolver or of the completion
\* is the last thing the call does and is returned from that call as its
\* mapped exception; a call whose completion fails returns no Response.
C22_OnceAndNoPartial ==
    InCall =>
        /\ Cardinality(CompletionsAsked) <= 1
        /\ \A k \in 1..Len(call.trace) :
              (/\ call.trace[k].name \in {"get_provider_for_model", "chat_completion"}
               /\ ~call.trace[k].res.ok) =>
                  /\ k = Len(call.trace)
                  /\ ~call.res.ok
                  /\ call.res.err = into_php_exception(call.trace[k].res.err)
        /\ call.res.ok => \E k \in CompletionsAsked : call.trace[k].res.ok

\* a tool call whose completion timed out has failed, after one invocation
C22_Witness ==
    /\ call.mode = "tools"
    /\ ~call.res.ok
    /\ \E k \in CompletionsAsked :
          /\ ~call.trace[k].res.ok
          /\ call.trace[k].res.err.t = "TimeoutError"

\* a plain call whose completion failed has failed
C22_WitnessLLM ==
    /\ call.mode = "llm"
    /\ ~call.res.ok
    /\ \E k \in CompletionsAsked : ~call.trace[k].res.ok

\* the failures the call got from octolib, each with the place in the trace
FailedAt == {k \in 1..Len(call.trace) :
                /\ call.trace[k].name \in {"get_provider_for_model", "chat_completion"}
                /\ ~call.trace[k].res.ok}

\* C23: the mapper classifies a network error, an API-status error and a
\* timeout as ConnectionError, a StructuredOutputError as
\* StructuredOutputError, a ToolCallError as ToolCallError, and every
\* other, unrecognized failure as the Generic exception whose message is
\* the failure's debug text; the exception is of a class the host has.
C23_Classification ==
    InCall =>
        \A k \in FailedAt :
            LET f == call.trace[k].res.err
                e == call.res.err
            IN  /\ f.t \in {"NetworkError", "ApiError", "TimeoutError"} =>
                      e.class = "LLMConnectionException"
                /\ f.t = "StructuredOutputError" =>
                      e.class = "LLMStructuredOutputException"
                /\ f.t = "ToolCallError" => e.class = "LLMToolCallException"
                /\ f.t \in {"ProviderError", "anyhow", "anyhow_context"} =>
                      /\ e.class = "LLMException"
                      /\ e.text \in {DebugText(f), <<"Provider error: ">> \o DebugText(f)}
                /\ f.t # "ModelNotSupported" => e.class \in RegisteredClasses

\* what does hold of the mapper: the class it asks for is the one stated,
\* an unrecognized ProviderError gives "Provider error: " and its debug
\* text, and a failure of another type gives what to_string() writes
C23_MapperClasses ==
    InCall =>
        \A k \in FailedAt :
            LET f == call.trace[k].res.err
                e == call.res.err
            IN  /\ f.t \in {"NetworkError", "ApiError", "TimeoutError"} =>
                      e.class = "LLMConnectionException"
                /\ f.t = "StructuredOutputError" =>
                      e.class = "LLMStructuredOutputException"
                /\ f.t = "ToolCallError" => e.class = "LLMToolCallException"
                /\ f.t = "ProviderError" =>
                      /\ e.class = "LLMException"
                      /\ e.text = <<"Provider error: ">> \o DebugText(f)
                /\ f.t \in {"anyhow", "anyhow_context"} =>
                      /\ e.class = "LLMException"
                      /\ e.text = anyhow_to_string(f)

\* a failure with a cause was mapped: the message leaves the cause out
C23_DisplayNotDebug ==
    /\ InCall
    /\ \E k \in FailedAt :
          /\ call.trace[k].res.err.t = "anyhow_context"
          /\ call.res.err.class = "LLMException"
          /\ call.res.err.text # DebugText(call.trace[k].res.err)

\* a network failure was mapped to a class that get_module does not register
C23_UnregisteredClass ==
    /\ InCall
    /\ \E k \in FailedAt : call.trace[k].res.err.t = "NetworkError"
    /\ call.res.err.class = "LLMConnectionException"
    /\ call.res.err.class \notin RegisteredClasses

\* the stored messages of the collection handed to the call, each
\* converted on its own
GivenCollection == call.input.v.obj

EachToOcto(i) == Message_to_octo(GivenCollection[i], OutcomeAt(call.outs, i))

FailingMessages == {i \in 1..Len(GivenCollection) : ~EachToOcto(i).ok}

\* C24: to_octo of a MessageCollection converts the messages in stored
\* order.  When all convert, the list handed on has the collection's
\* length and its i-th message is the conversion of the i-th stored one;
\* when some message fails, the conversion fails with the error of the
\* failing message of lowest index and nothing is handed on.
C24_ToOctoInOrder ==
    (InCall /\ IsObjectOf(call.input, "MessageCollection")) =>
        /\ FailingMessages # {} =>
              /\ ~call.res.ok
              /\ call.res.err = EachToOcto(Lowest(FailingMessages)).err
              /\ call.trace = << >>
        /\ FailingMessages = {} =>
              /\ Converted.ok
              /\ Len(Converted.val) = Len(GivenCollection)
              /\ \A i \in 1..Len(GivenCollection) : Converted.val[i] = EachToOcto(i).val
              /\ \A k \in CompletionsAsked :
                    call.trace[k].arg.messages = [i \in 1..Len(GivenCollection) |->
                                                     EachToOcto(i).val]

\* a collection whose two messages both fail, with different errors, has
\* been refused with the error of the first
C24_Witness ==
    /\ InCall /\ IsObjectOf(call.input, "MessageCollection")
    /\ FailingMessages = {1, 2}
    /\ EachToOcto(1).err # EachToOcto(2).err
    /\ ~call.res.ok
    /\ call.res.err = EachToOcto(1).err

\* a collection of two messages was converted and handed to the provider
C24_WitnessConverted ==
    /\ InCall /\ IsObjectOf(call.input, "MessageCollection")
    /\ FailingMessages = {}
    /\ Len(GivenCollection) = 2
    /\ CompletionsAsked # {}

\* the canonical model name the resolver answered with
ResolvedModel == call.trace[1].res.val.model

\* C30: the penalties set on a handle are in no request.  In every mode
\* the request is made of the converted messages, the canonical model,
\* temperature, top_p, the constant 50 and max_tokens of the object the
\* call is made on, and of the mode's extra (the tools, the structured
\* output form); for a call on the handle it is the request the handle
\* with the penalties left at their default makes.
C30_PenaltiesNotSent ==
    InCall =>
        \A k \in CompletionsAsked :
            LET params == call.trace[k].arg
            IN  /\ DOMAIN params = {"model", "messages", "temperature", "max_tokens",
                                    "top_p", "top_k", "tools", "structured_output"}
                /\ params.messages = Converted.val
                /\ params.model = ResolvedModel
                /\ params.temperature = call.self.temperature
                /\ params.top_p = call.self.top_p
                /\ params.top_k = 50
                /\ params.max_tokens = call.self.max_tokens
                /\ IsSome(params.tools) <=> call.mode = "tools"
                /\ IsSome(params.structured_output) <=> call.mode = "structured"
                /\ call.mode = "llm" =>
                      params = ChatCompletionParams_new(
                                   Converted.val, ResolvedModel, call.self.temperature,
                                   call.self.top_p, 50, call.self.max_tokens)

\* a handle with both penalties set has sent a request and got its answer
C30_Witness ==
    /\ call.mode = "llm"
    /\ call.self.frequency_penalty = 3
    /\ call.self.presence_penalty = 3
    /\ call.self.temperature = DefaultTemperature
    /\ CompletionsAsked # {}
    /\ call.res.ok

(***************************************************************************)
(* SpecConfig: a handle is made, configured by with_options and by the     *)
(* setters, and turned into a builder that is configured in turn.  cfg     *)
(* holds the object (self), its class (kind), the last operation made on   *)
(* it (name, arg) and the object as it was before that operation.          *)
(***************************************************************************)
F64Inputs == {0, 2 ^ F32Bits + 1}
TokenInputs == {500, -1}

RecognizedKeys ==
    {"temperature", "max_tokens", "top_p", "frequency_penalty", "presence_penalty"}

OptionKeyOrder ==
    <<"temperature", "seed", "max_tokens", "top_p", "stream", "frequency_penalty",
      "presence_penalty">>

OptionValues(key) ==
    CASE key = "temperature" -> {ZDouble(0), ZLong(1), ZString("0.5")}
      [] key = "max_tokens" -> {ZLong(500), ZLong(-1), ZDouble(5000)}
      [] key = "top_p" -> {ZDouble(2 ^ F32Bits + 1)}
      [] key = "frequency_penalty" -> {ZDouble(2 ^ F32Bits + 1)}
      [] key = "presence_penalty" -> {ZDouble(2 ^ F32Bits + 1), ZNull}
      [] key = "seed" -> {ZLong(1)}
      [] key = "stream" -> {ZBool(TRUE)}

\* the host table of a choice of values, its keys in the order written
OptionTable(f) ==
    LET keys == SelectSeq(OptionKeyOrder, LAMBDA k : k \in DOMAIN f)
    IN  [i \in 1..Len(keys) |-> Entry(KeyStr(keys[i]), f[keys[i]])]

\* the maps of at most one key, those maps with an unrecognized key added,
\* and maps that hold every key
OptionMaps ==
    LET single == {[k \in {key} |-> z] :
                      key \in Range(OptionKeyOrder), z \in UNION {OptionValues(k) : k \in Range(OptionKeyOrder)}}
        one == {f \in single : \A k \in DOMAIN f : f[k] \in OptionValues(k)}
        seeded == {[k \in DOMAIN f \cup {"seed"} |->
                      IF k \in DOMAIN f THEN f[k] ELSE ZLong(1)] : f \in one}
        full == {[k \in Range(OptionKeyOrder) |->
                    CASE k = "temperature" -> z
                      [] k = "max_tokens" -> ZLong(500)
                      [] k \in {"top_p", "frequency_penalty", "presence_penalty"} ->
                            ZDouble(2 ^ F32Bits + 1)
                      [] k = "seed" -> ZLong(1)
                      [] k = "stream" -> ZBool(TRUE)] :
                    z \in OptionValues("temperature")}
    IN  {OptionTable(f) : f \in {<< >>} \cup one \cup seeded \cup full}

InitConfig ==
    /\ zstr \in ZStrModes
    /\ cfg = [name |-> "__construct", arg |-> "openai:gpt-4o",
              self |-> LLM_construct("openai:gpt-4o").val, kind |-> "LLM",
              before |-> LLM_construct("openai:gpt-4o").val]
    /\ value = JNull /\ zval = None /\ back = None
    /\ IdleMsg /\ IdleColl /\ IdleCall

Configured(name, arg, kind, after) ==
    /\ cfg' = [name |-> name, arg |-> arg, self |-> after, kind |-> kind,
               before |-> cfg.self]
    /\ UNCHANGED <<convVars, msgVars, collVars, callVars>>

\* the setters each class has, the field each one is for, and its inputs
Setters(kind) ==
    IF kind = "LLM"
    THEN {"set_temperature", "set_max_tokens", "set_top_p", "set_frequency_penalty",
          "set_presence_penalty"}
    ELSE {"set_temperature", "set_max_tokens"}

SetterField(name) ==
    CASE name = "set_temperature" -> "temperature"
      [] name = "set_max_tokens" -> "max_tokens"
      [] name = "set_top_p" -> "top_p"
      [] name = "set_frequency_penalty" -> "frequency_penalty"
      [] name = "set_presence_penalty" -> "presence_penalty"

SetterInputs(name) == IF name = "set_max_tokens" THEN TokenInputs ELSE F64Inputs

\* the call $obj->name(x) on an object of class kind
ApplySetter(kind, name, self, x) ==
    CASE name = "set_temperature" /\ kind = "LLM" -> LLM_set_temperature(self, x)
      [] name = "set_temperature" /\ kind = "StructuredBuilder" ->
            StructuredBuilder_set_temperature(self, x)
      [] name = "set_temperature" /\ kind = "ToolBuilder" ->
            ToolBuilder_set_temperature(self, x)
      [] name = "set_max_tokens" /\ kind = "LLM" -> LLM_set_max_tokens(self, x)
      [] name = "set_max_tokens" /\ kind = "StructuredBuilder" ->
            StructuredBuilder_set_max_tokens(self, x)
      [] name = "set_max_tokens" /\ kind = "ToolBuilder" ->
            ToolBuilder_set_max_tokens(self, x)
      [] name = "set_top_p" -> LLM_set_top_p(self, x)
      [] name = "set_frequency_penalty" -> LLM_set_frequency_penalty(self, x)
      [] name = "set_presence_penalty" -> LLM_set_presence_penalty(self, x)

WithOptions ==
    /\ cfg.kind = "LLM"
    /\ \E options \in OptionMaps :
          Configured("with_options", options, "LLM",
                     LLM_with_options(cfg.self, options, zstr))

SetTemperature ==
    /\ cfg.name # "none"
    /\ \E x \in F64Inputs :
          Configured("set_temperature", x, cfg.kind,
                     ApplySetter(cfg.kind, "set_temperature", cfg.self, x))

SetMaxTokens ==
    /\ cfg.name # "none"
    /\ \E x \in TokenInputs :
          Configured("set_max_tokens", x, cfg.kind,
                     ApplySetter(cfg.kind, "set_max_tokens", cfg.self, x))

SetTopP ==
    /\ cfg.kind = "LLM"
    /\ \E x \in F64Inputs :
          Configured("set_top_p", x, "LLM", LLM_set_top_p(cfg.self, x))

SetFrequencyPenalty ==
    /\ cfg.kind = "LLM"
    /\ \E x \in F64Inputs :
          Configured("set_frequency_penalty", x, "LLM",
                     LLM_set_frequency_penalty(cfg.self, x))

SetPresencePenalty ==
    /\ cfg.kind = "LLM"
    /\ \E x \in F64Inputs :
          Configured("set_presence_penalty", x, "LLM",
                     LLM_set_presence_penalty(cfg.self, x))

Structured ==
    /\ cfg.kind = "LLM"
    /\ \E schema \in Schemas :
          Configured("structured", schema, "StructuredBuilder",
                     LLM_structured(cfg.self, schema).val)

WithTools ==
    /\ cfg.kind = "LLM"
    /\ \E tools \in ToolLists :
          Configured("with_tools", tools, "ToolBuilder",
                     LLM_with_tools(cfg.self, tools).val)

NextConfig ==
    \/ WithOptions \/ SetTemperature \/ SetMaxTokens \/ SetTopP
    \/ SetFrequencyPenalty \/ SetPresencePenalty \/ Structured \/ WithTools

SpecConfig == InitConfig /\ [][NextConfig]_vars

(***************************************************************************)
(* Claims about the configuration.                                         *)
(***************************************************************************)
\* the value with_options reads under a recognized key, if it reads one
OptionRead(options, key, mode) ==
    IF key = "max_tokens" THEN option_long(options, key)
    ELSE option_double(options, key, mode)

OptionCast(key, x) == IF key = "max_tokens" THEN as_u32(x) ELSE as_f32(x)

\* C13 as stated: with_options applies exactly the recognized keys: each
\* recognized key of the map sets its field to the value given, each
\* recognized key absent from the map leaves its field as it was, and
\* nothing else of the configuration changes.
C13_RecognizedKeysSet ==
    cfg.name = "with_options" =>
        /\ \A key \in RecognizedKeys :
              IF IsSome(HashGet(cfg.arg, key))
              THEN /\ IsSome(OptionRead(cfg.arg, key, zstr))
                   /\ cfg.self[key] = OptionCast(key, Unwrap(OptionRead(cfg.arg, key, zstr)))
              ELSE cfg.self[key] = cfg.before[key]
        /\ cfg.self.model = cfg.before.model

\* C13 as amended: a recognized key sets its field when its value is of
\* the field's host type (double() answers for temperature, top_p and the
\* penalties, long() for max_tokens), to that value cast to the field's
\* width; a recognized key with any other value, like an absent one,
\* leaves its field as it was; unrecognized keys change nothing.
C13_WithOptions ==
    cfg.name = "with_options" =>
        /\ \A key \in RecognizedKeys :
              IF IsSome(OptionRead(cfg.arg, key, zstr))
              THEN cfg.self[key] = OptionCast(key, Unwrap(OptionRead(cfg.arg, key, zstr)))
              ELSE cfg.self[key] = cfg.before[key]
        /\ cfg.self.model = cfg.before.model
        /\ DOMAIN cfg.self = DOMAIN cfg.before
        /\ (\A i \in DOMAIN cfg.arg : cfg.arg[i].key.s \notin RecognizedKeys) =>
              cfg.self = cfg.before

\* a map with a recognized and an unrecognized key was applied to a handle
\* whose max_tokens was no longer the default: temperature was set, the
\* rest stayed
C13_Witness ==
    /\ cfg.name = "with_options"
    /\ HashGet(cfg.arg, "temperature") = Some(ZDouble(0))
    /\ IsSome(HashGet(cfg.arg, "seed"))
    /\ cfg.before.temperature # 0
    /\ cfg.self.temperature = 0
    /\ cfg.before.max_tokens # DefaultMaxTokens
    /\ cfg.self.max_tokens = cfg.before.max_tokens

\* a map of unrecognized keys only was applied to a configured handle
C13_WitnessUnrecognized ==
    /\ cfg.name = "with_options"
    /\ cfg.arg # << >>
    /\ \A i \in DOMAIN cfg.arg : cfg.arg[i].key.s \notin RecognizedKeys
    /\ cfg.self = cfg.before
    /\ cfg.self.top_p # DefaultTopP

\* C14: the setters of LLM, StructuredBuilder and ToolBuilder are
\* idempotent and independent: a setter applied twice with one value gives
\* the state it gives applied once, it changes no field but its own, and
\* two setters of different fields give the same state in either order.
C14_Setters ==
    /\ cfg.name \in Setters(cfg.kind) =>
          /\ cfg.self = ApplySetter(cfg.kind, cfg.name, cfg.before, cfg.arg)
          /\ \A f \in DOMAIN cfg.self \ {SetterField(cfg.name)} :
                cfg.self[f] = cfg.before[f]
          /\ ApplySetter(cfg.kind, cfg.name, cfg.self, cfg.arg) = cfg.self
    /\ cfg.name # "none" =>
          \A m \in Setters(cfg.kind) : \A x \in SetterInputs(m) :
              LET once == ApplySetter(cfg.kind, m, cfg.self, x)
              IN  /\ ApplySetter(cfg.kind, m, once, x) = once
                  /\ \A f \in DOMAIN cfg.self \ {SetterField(m)} : once[f] = cfg.self[f]
                  /\ \A n \in Setters(cfg.kind) \ {m} : \A y \in SetterInputs(n) :
                        ApplySetter(cfg.kind, n, once, y)
                            = ApplySetter(cfg.kind, m,
                                          ApplySetter(cfg.kind, n, cfg.self, y), x)

\* a builder's max_tokens was set to a new value after its temperature was
C14_Witness ==
    /\ cfg.kind = "ToolBuilder"
    /\ cfg.name = "set_max_tokens"
    /\ cfg.self.max_tokens # cfg.before.max_tokens
    /\ cfg.self.temperature # DefaultTemperature


(***************************************************************************)
(* SpecTools: Tools are made, by the constructor and by Tool::from_array,  *)
(* and put on a ToolBuilder by add_tool and set_tools.  cfg.arg holds the  *)
(* input of the operation and, for a Tool that was made, the result.       *)
(***************************************************************************)
ParameterInputs ==
    {ZString("{}"), ZString("{bad"),
     ZArray(<<Entry(KeyStr("location"), ZString("Boston"))>>), ZArray(<< >>), ZNull}

ToolArray(parameters) ==
    <<Entry(KeyStr("name"), ZString("get_weather")),
      Entry(KeyStr("description"), ZString("weather")),
      Entry(KeyStr("parameters"), parameters)>>

ToolArrays ==
    {ToolArray(z) : z \in ParameterInputs}
    \cup {<<Entry(KeyStr("name"), ZString("get_weather"))>>,
          <<Entry(KeyStr("name"), ZLong(1)),
            Entry(KeyStr("description"), ZString("weather")),
            Entry(KeyStr("parameters"), ZString("{}"))>>,
          <<Entry(KeyStr("name"), ZString("get_weather")),
            Entry(KeyStr("description"), ZString("weather"))>>}

SetToolsInputs ==
    {PhpList(items) :
        items \in SeqsUpTo({ZArray(ToolArray(ZString("{}"))),
                            ZArray(ToolArray(ZString("{bad"))), ZString("hi")}, MaxLen)}

InitTools ==
    /\ zstr \in ZStrModes
    /\ cfg = [name |-> "with_tools", arg |-> None,
              self |-> LLM_with_tools(LLM_construct("openai:gpt-4o").val, None).val,
              kind |-> "ToolBuilder",
              before |-> LLM_with_tools(LLM_construct("openai:gpt-4o").val, None).val]
    /\ value = JNull /\ zval = None /\ back = None
    /\ IdleMsg /\ IdleColl /\ IdleCall

\* $builder->add_tool(new Tool(..)): nothing is added when the constructor
\* throws
AddNewTool ==
    /\ Len(cfg.self.tools) < MaxLen
    /\ \E z \in ParameterInputs :
          LET made == Tool_construct("get_weather", "weather", z, zstr)
          IN  Configured("Tool::__construct", [res |-> made, input |-> z], "ToolBuilder",
                         IF made.ok THEN ToolBuilder_add_tool(cfg.self, made.val)
                         ELSE cfg.self)

\* $builder->add_tool(Tool::from_array(..))
AddToolFromArray ==
    /\ Len(cfg.self.tools) < MaxLen
    /\ \E data \in ToolArrays :
          LET made == Tool_from_array(data, zstr)
          IN  Configured("Tool::from_array", [res |-> made, input |-> data], "ToolBuilder",
                         IF made.ok THEN ToolBuilder_add_tool(cfg.self, made.val)
                         ELSE cfg.self)

SetTools ==
    /\ cfg.name # "set_tools"
    /\ \E tools \in SetToolsInputs :
          Configured("set_tools", [input |-> tools], "ToolBuilder",
                     ToolBuilder_set_tools(cfg.self, tools, zstr))

NextTools == AddNewTool \/ AddToolFromArray \/ SetTools

SpecTools == InitTools /\ [][NextTools]_vars

(***************************************************************************)
(* Claims about Tools.                                                     *)
(***************************************************************************)
ValidJson(text) == serde_json_from_str(text).ok

MadeATool == cfg.name \in {"Tool::__construct", "Tool::from_array"}

\* C20: the parameters of a Tool are validated when it is made: every Tool
\* there is, made by the constructor, by Tool::from_array or by set_tools,
\* holds parameters that parse as JSON, and making a Tool of parameters
\* that do not parse fails with ValidationError.
C20_ToolsHoldValidJson ==
    /\ \A k \in DOMAIN cfg.self.tools : ValidJson(cfg.self.tools[k].parameters)
    /\ (MadeATool /\ cfg.arg.res.ok) => ValidJson(cfg.arg.res.val.parameters)
    /\ (MadeATool /\ ~cfg.arg.res.ok) => cfg.arg.res.err.class = "LLMValidationException"

\* what holds: the constructor validates, and every failure of either way
\* of making a Tool is a ValidationError
C20_ConstructorValidates ==
    /\ (cfg.name = "Tool::__construct" /\ cfg.arg.res.ok) =>
          ValidJson(cfg.arg.res.val.parameters)
    /\ (cfg.name = "Tool::__construct" /\ cfg.arg.input = ZString("{bad")) =>
          /\ ~cfg.arg.res.ok
          /\ Names(cfg.arg.res.err, "Invalid JSON schema: ")
    /\ (MadeATool /\ ~cfg.arg.res.ok) => cfg.arg.res.err.class = "LLMValidationException"

\* Tool::from_array made the Tool that the calls of SpecCall are given
C20_InvalidToolFromArray ==
    /\ cfg.name = "Tool::from_array"
    /\ cfg.arg.res.ok
    /\ ~ValidJson(cfg.arg.res.val.parameters)
    /\ cfg.self.tools[Len(cfg.self.tools)] = cfg.arg.res.val
    /\ [cfg.arg.res.val EXCEPT !.name = "broken"] = BadTool

\* set_tools put a Tool with unparseable parameters on the builder
C20_InvalidToolSet ==
    /\ cfg.name = "set_tools"
    /\ \E k \in DOMAIN cfg.self.tools : ~ValidJson(cfg.self.tools[k].parameters)

(***************************************************************************)
(* SpecRuntime: the tokio runtime of a handle.  LLM::__construct makes a   *)
(* runtime behind an Arc; structured() and with_tools() hand a clone of    *)
(* the Arc to the builder; each complete() clones it for the time of the   *)
(* call; dropping an object drops its Arc.  runtimes is the strong count   *)
(* of each Arc (a runtime is named after the object that made it), and a   *)
(* runtime is destroyed when its count returns to zero.  The calls are     *)
(* let overlap with derivations and destructions of other objects.         *)
(***************************************************************************)
Handles == {"llm_1", "llm_2"}
Classes == {"LLM", "StructuredBuilder", "ToolBuilder"}
Slots == Handles \X Classes

HandleSlot(slot) == <<slot[1], "LLM">>

\* the runtime field a builder is given: self.runtime.clone()
derived_runtime_own(self_runtime, own) == own

derived_runtime(self_runtime, own) == self_runtime

\* Arc::new / Arc::clone and Drop, on the strong count
Arc_clone(strong) == strong + 1
Arc_drop(strong) == strong - 1

NoObject == [alive |-> FALSE, busy |-> FALSE, runtime |-> None]

InitRuntime ==
    /\ cfg = [name |-> "start", objs |-> [s \in Slots |-> NoObject],
              runtimes |-> [s \in Slots |-> 0], target |-> None]
    /\ IdleConv /\ IdleMsg /\ IdleColl /\ IdleCall

Free(slot) == cfg.objs[slot] = NoObject

\* the object of slot now holds a reference to the runtime rt
Holding(name, slot, rt) ==
    /\ cfg' = [name |-> name,
               objs |-> [cfg.objs EXCEPT ![slot] =
                            [alive |-> TRUE, busy |-> FALSE, runtime |-> Some(rt)]],
               runtimes |-> [cfg.runtimes EXCEPT ![rt] = Arc_clone(@)],
               target |-> Some(slot)]
    /\ UNCHANGED <<convVars, msgVars, collVars, callVars>>

\* new LLM(model)
NewLLM ==
    \E h \in Handles :
        /\ Free(<<h, "LLM">>)
        /\ Holding("__construct", <<h, "LLM">>, <<h, "LLM">>)

\* $llm->structured(schema)
DeriveStructured ==
    \E h \in Handles :
        /\ cfg.objs[<<h, "LLM">>].alive
        /\ Free(<<h, "StructuredBuilder">>)
        /\ Holding("structured", <<h, "StructuredBuilder">>,
                   derived_runtime(Unwrap(cfg.objs[<<h, "LLM">>].runtime),
                                   <<h, "StructuredBuilder">>))

\* $llm->with_tools(tools)
DeriveTools ==
    \E h \in Handles :
        /\ cfg.objs[<<h, "LLM">>].alive
        /\ Free(<<h, "ToolBuilder">>)
        /\ Holding("with_tools", <<h, "ToolBuilder">>,
                   derived_runtime(Unwrap(cfg.objs[<<h, "LLM">>].runtime),
                                   <<h, "ToolBuilder">>))

\* complete() up to its block_on: let rt = self.runtime.clone()
BeginComplete ==
    \E slot \in Slots :
        /\ cfg.objs[slot].alive
        /\ ~cfg.objs[slot].busy
        /\ cfg' = [name |-> "complete",
                   objs |-> [cfg.objs EXCEPT ![slot].busy = TRUE],
                   runtimes |-> [cfg.runtimes EXCEPT
                                    ![Unwrap(cfg.objs[slot].runtime)] = Arc_clone(@)],
                   target |-> Some(slot)]
        /\ UNCHANGED <<convVars, msgVars, collVars, callVars>>

\* complete() returns: rt goes out of scope
EndComplete ==
    \E slot \in Slots :
        /\ cfg.objs[slot].busy
        /\ cfg' = [name |-> "return",
                   objs |-> [cfg.objs EXCEPT ![slot].busy = FALSE],
                   runtimes |-> [cfg.runtimes EXCEPT
                                    ![Unwrap(cfg.objs[slot].runtime)] = Arc_drop(@)],
                   target |-> Some(slot)]
        /\ UNCHANGED <<convVars, msgVars, collVars, callVars>>

\* the host frees an object that is in no call of its own: its fields are
\* dropped (the runtime the object held stays on record)
Destroy ==
    \E slot \in Slots :
        /\ cfg.objs[slot].alive
        /\ ~cfg.objs[slot].busy
        /\ cfg' = [name |-> "drop",
                   objs |-> [cfg.objs EXCEPT ![slot].alive = FALSE],
                   runtimes |-> [cfg.runtimes EXCEPT
                                    ![Unwrap(cfg.objs[slot].runtime)] = Arc_drop(@)],
                   target |-> Some(slot)]
        /\ UNCHANGED <<convVars, msgVars, collVars, callVars>>

NextRuntime ==
    NewLLM \/ DeriveStructured \/ DeriveTools \/ BeginComplete \/ EndComplete \/ Destroy

SpecRuntime == InitRuntime /\ [][NextRuntime]_vars

Made(slot) == IsSome(cfg.objs[slot].runtime)

\* C27: every builder derived from a handle holds the runtime of that
\* handle, and no other runtime is ever made for it; whatever the order of
\* derivations, destructions and calls, the runtime of an object in a
\* complete() call is not destroyed while the call is in flight.
C27_SharedRuntime ==
    /\ \A slot \in Slots :
          Made(slot) =>
              /\ Made(HandleSlot(slot))
              /\ cfg.objs[slot].runtime = cfg.objs[HandleSlot(slot)].runtime
              /\ cfg.objs[slot].runtime = Some(HandleSlot(slot))
    /\ \A slot \in Slots :
          slot[2] # "LLM" => cfg.runtimes[slot] = 0
    /\ \A slot \in Slots :
          cfg.objs[slot].busy => cfg.runtimes[Unwrap(cfg.objs[slot].runtime)] > 0

\* the count of a runtime is the number of objects and calls that hold it
C27_CountsHolders ==
    \A h \in Handles :
        cfg.runtimes[<<h, "LLM">>] =
            Cardinality({s \in Slots : s[1] = h /\ cfg.objs[s].alive})
            + Cardinality({s \in Slots : s[1] = h /\ cfg.objs[s].busy})

\* the handle and one builder are gone while the other builder's call is
\* in flight: the call alone keeps the runtime
C27_Witness ==
    /\ Made(<<"llm_1", "LLM">>) /\ ~cfg.objs[<<"llm_1", "LLM">>].alive
    /\ Made(<<"llm_1", "ToolBuilder">>) /\ ~cfg.objs[<<"llm_1", "ToolBuilder">>].alive
    /\ cfg.objs[<<"llm_1", "StructuredBuilder">>].busy
    /\ cfg.runtimes[<<"llm_1", "LLM">>] = 2
    /\ cfg.objs[<<"llm_2", "LLM">>].alive

(***************************************************************************)
(* SpecBulk: one list is handed to new MessageCollection(list), and the    *)
(* same list is handed to complete() as a plain array, which converts it   *)
(* with php_to_messages.  octo holds what the conversion gave.             *)
(***************************************************************************)
\* php_to_messages of the list given to the constructor
ListToMessages ==
    /\ IsSome(built)
    /\ IsSome(Unwrap(built).arg)
    /\ octo = None
    /\ \E outs \in Outs :
          octo' = Some([res |-> php_to_messages(ZArray(Unwrap(Unwrap(built).arg)), outs),
                        outcome |-> outs])
    /\ UNCHANGED <<op, collVars, convVars, callVars, cfgVars>>

NextBulk == Construct \/ ListToMessages

SpecBulk == InitColl /\ [][NextBulk]_vars

\* the list of the state, its field maps, and the places of the entries
\* that php_to_messages looks at
GivenList == Unwrap(Unwrap(built).arg)

IsMessage(e) == IsObjectOf(e.val, "Message")

TypedPlaces ==
    SelectSeq([i \in 1..Len(GivenList) |-> i],
              LAMBDA i : IsMessage(GivenList[i]) \/ IsMap(GivenList[i]))

\* the entry at place i as a Message, and converted on its own
EntryMessage(i) ==
    IF IsMessage(GivenList[i]) THEN Ok(GivenList[i].val.v.obj)
    ELSE Message_from_array(GivenList[i].val.v)

EntryToOcto(i) ==
    IF EntryMessage(i).ok
    THEN Message_to_octo(EntryMessage(i).val, OutcomeAt(Unwrap(octo).outcome, i))
    ELSE EntryMessage(i)

\* C28: the entries of a list that are no field maps are skipped without
\* an error.  A collection made of the list holds one Message for each
\* field map, in order, whatever else the list holds; php_to_messages of
\* the list as a plain array gives the conversions of the entries that
\* are Message objects or field maps, in order, and a list without such
\* an entry gives the empty sequence and no error.
C28_SkipsOtherEntries ==
    (IsSome(built) /\ IsSome(Unwrap(built).arg)) =>
        LET maps == SelectSeq(GivenList, IsMap)
            res == Unwrap(built).res
        IN  /\ res.ok <=> InvalidAt(GivenList) = {}
            /\ res.ok =>
                  /\ Len(res.val) = Len(maps)
                  /\ \A k \in 1..Len(maps) :
                        res.val[k] = Message_from_array(maps[k].val.v).val
            /\ IsSome(octo) =>
                  LET conv == Unwrap(octo).res
                  IN  /\ conv.ok <=> \A k \in 1..Len(TypedPlaces) :
                                        EntryToOcto(TypedPlaces[k]).ok
                      /\ conv.ok =>
                            conv.val = [k \in 1..Len(TypedPlaces) |->
                                           EntryToOcto(TypedPlaces[k]).val]
                      /\ TypedPlaces = << >> => conv = Ok(<< >>)

\* a string, then a field map: the collection and the conversion hold one
C28_Witness ==
    /\ IsSome(built) /\ IsSome(Unwrap(built).arg) /\ IsSome(octo)
    /\ Len(GivenList) = 2
    /\ GivenList[1].val = ZString("hi")
    /\ IsMap(GivenList[2])
    /\ Unwrap(built).res.ok /\ Len(Unwrap(built).res.val) = 1
    /\ Unwrap(octo).res.ok /\ Len(Unwrap(octo).res.val) = 1

\* a list of two strings gave an empty collection and an empty sequence
C28_WitnessEmpty ==
    /\ IsSome(built) /\ IsSome(Unwrap(built).arg) /\ IsSome(octo)
    /\ Len(GivenList) = 2
    /\ TypedPlaces = << >>
    /\ Unwrap(built).res = Ok(<< >>)
    /\ Unwrap(octo).res = Ok(<< >>)

\* a Message object in the list: the constructor skips it, the conversion
\* keeps it
C28_WitnessObject ==
    /\ IsSome(built) /\ IsSome(Unwrap(built).arg) /\ IsSome(octo)
    /\ Len(GivenList) = 1
    /\ IsMessage(GivenList[1])
    /\ Unwrap(built).res = Ok(<< >>)
    /\ Unwrap(octo).res.ok /\ Len(Unwrap(octo).res.val) = 1

(***************************************************************************)
(* SpecSnapshot: one handle and the builders derived from it, side by      *)
(* side.  objs holds the fields of the handle, of the StructuredBuilder    *)
(* and of the ToolBuilder the caller has (a builder derived again takes    *)
(* the place of the earlier one); each step is one call on one of them.    *)
(***************************************************************************)
SnapshotInputs(name) ==
    CASE name = "set_temperature" -> {0}
      [] name = "set_max_tokens" -> {500}
      [] name = "set_top_p" -> {5}
      [] OTHER -> {3}

SnapshotOptions ==
    {OptionTable([temperature |-> ZDouble(0)]),
     OptionTable([max_tokens |-> ZLong(500), top_p |-> ZDouble(5)]),
     OptionTable([frequency_penalty |-> ZDouble(3), presence_penalty |-> ZDouble(3)])}

InitSnapshot ==
    /\ cfg = [name |-> "__construct",
              objs |-> [k \in Classes |->
                          IF k = "LLM" THEN Some(LLM_construct("openai:gpt-4o").val)
                          ELSE None],
              target |-> "LLM"]
    /\ IdleConv /\ IdleMsg /\ IdleColl /\ IdleCall

\* the call name on the object of class kind left it as after
Snapshot(name, kind, after) ==
    /\ cfg' = [name |-> name, objs |-> [cfg.objs EXCEPT ![kind] = Some(after)],
               target |-> kind]
    /\ UNCHANGED <<convVars, msgVars, collVars, callVars>>

TheHandle == Unwrap(cfg.objs["LLM"])

\* $b = $llm->structured(schema)
TakeStructured ==
    Snapshot("structured", "StructuredBuilder", LLM_structured(TheHandle, Some("{}")).val)

\* $t = $llm->with_tools(tools)
TakeTools ==
    \E tools \in {None, Some(PhpList(<<ZObject("Tool", GoodTool)>>))} :
        Snapshot("with_tools", "ToolBuilder", LLM_with_tools(TheHandle, tools).val)

\* $llm->with_options(options)
HandleWithOptions ==
    \E options \in SnapshotOptions :
        Snapshot("with_options", "LLM", LLM_with_options(TheHandle, options, zstr))

\* $llm->set_..(x)
HandleSetter ==
    \E name \in Setters("LLM") : \E x \in SnapshotInputs(name) :
        Snapshot(name, "LLM", ApplySetter("LLM", name, TheHandle, x))

\* $b->set_..(x) and $t->set_..(x)
BuilderSetter ==
    \E kind \in {"StructuredBuilder", "ToolBuilder"} :
        /\ IsSome(cfg.objs[kind])
        /\ \E name \in Setters(kind) : \E x \in SnapshotInputs(name) :
              Snapshot(name, kind, ApplySetter(kind, name, Unwrap(cfg.objs[kind]), x))

NextSnapshot ==
    TakeStructured \/ TakeTools \/ HandleWithOptions \/ HandleSetter \/ BuilderSetter

SpecSnapshot == InitSnapshot /\ [][NextSnapshot]_vars

CopiedFields == {"model", "temperature", "max_tokens", "top_p"}

\* C29: a builder is a snapshot of the handle at derivation time.  A
\* derivation copies model, temperature, max_tokens and top_p and leaves
\* the handle and the other builder as they were; with_options and the
\* setters of the handle leave every builder as it was; a setter of a
\* builder leaves the handle and the other builder as they were.
C29_Snapshot ==
    [][ /\ \A k \in Classes : k # cfg'.target => cfg'.objs[k] = cfg.objs[k]
        /\ cfg'.name \in {"structured", "with_tools"} =>
              /\ cfg'.target # "LLM"
              /\ \A f \in CopiedFields :
                    Unwrap(cfg'.objs[cfg'.target])[f] = Unwrap(cfg.objs["LLM"])[f] ]_vars

\* the StructuredBuilder was taken, the handle set to temperature 0, the
\* ToolBuilder taken, and the StructuredBuilder set to 500 tokens: the
\* three differ, each as its own calls left it
C29_Witness ==
    /\ cfg.name = "set_max_tokens" /\ cfg.target = "StructuredBuilder"
    /\ TheHandle.temperature = 0 /\ TheHandle.max_tokens = DefaultMaxTokens
    /\ IsSome(cfg.objs["StructuredBuilder"])
    /\ Unwrap(cfg.objs["StructuredBuilder"]).temperature = DefaultTemperature
    /\ Unwrap(cfg.objs["StructuredBuilder"]).max_tokens = 500
    /\ IsSome(cfg.objs["ToolBuilder"])
    /\ Unwrap(cfg.objs["ToolBuilder"]).temperature = 0
    /\ Unwrap(cfg.objs["ToolBuilder"]).max_tokens = DefaultMaxTokens

====
